---- MODULE Spec2Model ----
(***************************************************************************)
(* DiskTrend (storage-analyzer): the scan engine (scanner.py), its store   *)
(* (models.py), the scheduler's trigger (scheduler.py) and the HTTP        *)
(* trigger (server.py), as a state machine.                                *)
(*                                                                         *)
(* Paths are strings, modelled as sequences of one-character strings, so   *)
(* that startswith, dirname, basename, normpath and relpath are computed   *)
(* as the Python library computes them.                                    *)
(*                                                                         *)
(* The program is a single asyncio event loop: the code between two awaits *)
(* runs without interleaving. Every action below is one such stretch (or a *)
(* part of one), so every interleaving of the event loop is an             *)
(* interleaving of the model.                                              *)
(***************************************************************************)
EXTENDS Integers, Sequences, FiniteSets, TLC

VARIABLES
    config,       \* the loaded configuration: scanner.mount_points, skip_paths, max_depth
    fs,           \* the filesystem: directory path -> its listing
    snapshots,    \* table snapshots: id -> row
    entries,      \* table entries: rows in insertion order
    scan_errors,  \* table scan_errors: rows in insertion order
    next_id,      \* AUTOINCREMENT of snapshots.id
    now,          \* the clock behind datetime.now()
    scan_task,    \* ScanScheduler._scan_task
    scanner,      \* DiskScanner instances: [running, cancelled, progress_callback]
    pc,           \* each task's position
    run,          \* run_scan's locals of each task: scanner, mount_points, idx, results
    scan,         \* scan()'s locals of each task
    exc,          \* the exception in flight (or last raised) in each task: its message
    env,          \* what the environment may still do: failures, requests, calls
    reply         \* the last answer of a read query of the store

dbVars   == <<snapshots, entries, scan_errors, next_id, now>>
cfgVars  == <<config, fs>>
taskVars == <<pc, run, scan, exc>>
vars     == <<config, fs, snapshots, entries, scan_errors, next_id, now,
              scan_task, scanner, pc, run, scan, exc, env, reply>>

----------------------------------------------------------------------------
(* Bounds of the model *)

MaxTasks == 2        \* tasks (triggered scans, or callers of one scanner)
MaxFaults == 2       \* storage calls / progress callbacks that raise
MaxCalls == 3        \* scan() calls by the callers of one scanner
BATCH_SIZE == 2      \* DiskScanner.BATCH_SIZE, scaled down to the modelled trees
MaxSnapshots == 3    \* snapshots in the store when the read queries are called
MaxLimit == 3        \* the limit of a top-growth query
MaxRetention == 2    \* retention.days

Tasks == 1..MaxTasks

NoneId == 0          \* snapshot_id = None (ids start at 1, so `if snapshot_id` agrees)
NonePath == <<>>     \* parent_path = None
NoneMsg == ""        \* no exception

----------------------------------------------------------------------------
(* Strings and os.path *)

Max(a, b) == IF a >= b THEN a ELSE b

startswith(s, prefix) ==
    Len(prefix) <= Len(s) /\ SubSeq(s, 1, Len(prefix)) = prefix

endswith(s, suffix) ==
    Len(suffix) <= Len(s) /\ SubSeq(s, Len(s) - Len(suffix) + 1, Len(s)) = suffix

\* str.rfind('/') + 1: the index (1-based) of the last '/', 0 when there is none
rfind_sep(p) ==
    LET idx == {i \in 1..Len(p) : p[i] = "/"}
    IN  IF idx = {} THEN 0 ELSE CHOOSE i \in idx : \A j \in idx : j <= i

RECURSIVE split_acc(_, _, _)
split_acc(s, cur, acc) ==
    IF s = <<>> THEN Append(acc, cur)
    ELSE IF Head(s) = "/" THEN split_acc(Tail(s), <<>>, Append(acc, cur))
    ELSE split_acc(Tail(s), Append(cur, Head(s)), acc)

\* str.split('/')
split(s) == split_acc(s, <<>>, <<>>)

RECURSIVE join_sep(_)
\* '/'.join(comps)
join_sep(comps) ==
    IF comps = <<>> THEN <<>>
    ELSE IF Len(comps) = 1 THEN comps[1]
    ELSE comps[1] \o <<"/">> \o join_sep(Tail(comps))

RECURSIVE rstrip_sep(_)
rstrip_sep(s) ==
    IF s # <<>> /\ s[Len(s)] = "/" THEN rstrip_sep(SubSeq(s, 1, Len(s) - 1)) ELSE s

\* os.path.join(a, b)
path_join(a, b) ==
    IF startswith(b, <<"/">>) THEN b
    ELSE IF a = <<>> \/ endswith(a, <<"/">>) THEN a \o b
    ELSE a \o <<"/">> \o b

\* os.path.dirname(p)
dirname(p) ==
    LET head == SubSeq(p, 1, rfind_sep(p))
    IN  IF head # <<>> /\ rstrip_sep(head) # <<>> THEN rstrip_sep(head) ELSE head

\* os.path.basename(p)
basename(p) == SubSeq(p, rfind_sep(p) + 1, Len(p))

RECURSIVE norm_comps(_, _, _)
\* the loop of posixpath.normpath over the components
norm_comps(comps, new, initial_slashes) ==
    IF comps = <<>> THEN new
    ELSE LET comp == Head(comps)
         IN  IF comp = <<>> \/ comp = <<".">>
             THEN norm_comps(Tail(comps), new, initial_slashes)
             ELSE IF comp # <<".", ".">>
                     \/ (initial_slashes = 0 /\ new = <<>>)
                     \/ (new # <<>> /\ new[Len(new)] = <<".", ".">>)
             THEN norm_comps(Tail(comps), Append(new, comp), initial_slashes)
             ELSE IF new # <<>>
             THEN norm_comps(Tail(comps), SubSeq(new, 1, Len(new) - 1), initial_slashes)
             ELSE norm_comps(Tail(comps), new, initial_slashes)

\* posixpath.normpath(path)
normpath(path) ==
    IF path = <<>> THEN <<".">>
    ELSE LET initial_slashes ==
                 IF ~startswith(path, <<"/">>) THEN 0
                 ELSE IF startswith(path, <<"/", "/">>) /\ ~startswith(path, <<"/", "/", "/">>)
                      THEN 2 ELSE 1
             joined == join_sep(norm_comps(split(path), <<>>, initial_slashes))
             res == [i \in 1..initial_slashes |-> "/"] \o joined
         IN  IF res = <<>> THEN <<".">> ELSE res

\* os.getcwd(): the server is started from the filesystem root
getcwd == <<"/">>

\* os.path.abspath(path)
abspath(path) ==
    IF startswith(path, <<"/">>) THEN normpath(path)
    ELSE normpath(path_join(getcwd, path))

nonempty(comps) == SelectSeq(comps, LAMBDA c : c # <<>>)

RECURSIVE common_len(_, _)
\* len(os.path.commonprefix([a, b])) of two component lists
common_len(a, b) ==
    IF a = <<>> \/ b = <<>> \/ Head(a) # Head(b) THEN 0
    ELSE 1 + common_len(Tail(a), Tail(b))

\* the component list of os.path.relpath(path, start)
relpath_list(path, start) ==
    LET start_list == nonempty(split(abspath(start)))
        path_list == nonempty(split(abspath(path)))
        i == common_len(start_list, path_list)
    IN  [k \in 1..(Len(start_list) - i) |-> <<".", ".">>]
            \o SubSeq(path_list, i + 1, Len(path_list))

\* os.path.relpath(path, start)
relpath(path, start) ==
    IF relpath_list(path, start) = <<>> THEN <<".">>
    ELSE join_sep(relpath_list(path, start))

----------------------------------------------------------------------------
(* The filesystem the scans run over *)

Str_a == <<"a">>
Str_b == <<"b">>
Str_c == <<"c">>
Str_d == <<"d">>
Str_tmp == <<"t", "m", "p">>
Str_tmpX == <<"t", "m", "p", "X">>

Root == <<"/">>
Dir_a == <<"/", "a">>
Dir_ab == <<"/", "a", "/", "b">>
Dir_abc == <<"/", "a", "/", "b", "/", "c">>
Dir_ad == <<"/", "a", "/", "d">>
Dir_tmp == <<"/", "t", "m", "p">>
Dir_tmpX == <<"/", "t", "m", "p", "X">>
Dir_b == <<"/", "b">>
File_af == <<"/", "a", "/", "f">>          \* a regular file, not a directory
Dir_ab_slash == <<"/", "a", "/", "b", "/">>  \* "/a/b/", as a user may write it

File(name, size, err) == [name |-> name, size |-> size, err |-> err]
Listing(dirs, files) == [listable |-> TRUE, dirs |-> dirs, files |-> files]
Unlistable == [listable |-> FALSE, dirs |-> <<>>, files |-> <<>>]

\*  /            a/ tmp/ tmpX/
\*  /a           b/ d/   f (1 byte)   u (lstat fails: PermissionError)
\*  /a/b         c/      g (2 bytes)
\*  /a/b/c               h (4 bytes)
\*  /a/d         cannot be listed (scandir fails)
\*  /tmp                 t (8 bytes)
\*  /tmpX                x (16 bytes)
Fs0 ==
    (Root :> Listing(<<Str_a, Str_tmp, Str_tmpX>>, <<>>))
    @@ (Dir_a :> Listing(<<Str_b, Str_d>>,
                         <<File(<<"f">>, 1, ""), File(<<"u">>, 2, "PermissionError")>>))
    @@ (Dir_ab :> Listing(<<Str_c>>, <<File(<<"g">>, 2, "")>>))
    @@ (Dir_abc :> Listing(<<>>, <<File(<<"h">>, 4, "")>>))
    @@ (Dir_ad :> Unlistable)
    @@ (Dir_tmp :> Listing(<<>>, <<File(<<"t">>, 8, "")>>))
    @@ (Dir_tmpX :> Listing(<<>>, <<File(<<"x">>, 16, "")>>))

\* os.path.isdir(p)
isdir(fsys, p) == p \in DOMAIN fsys

RECURSIVE walk(_, _)
RECURSIVE walk_subdirs(_, _, _)
\* the walks of the subdirectories of top, in listing order
walk_subdirs(fsys, top, dirs) ==
    IF dirs = <<>> THEN <<>>
    ELSE walk(fsys, path_join(top, Head(dirs))) \o walk_subdirs(fsys, top, Tail(dirs))

\* list(os.walk(top, topdown=False, onerror=...)): (root, dirs, files), children
\* before their parent; a directory whose scandir fails is reported to onerror
\* and yields nothing
walk(fsys, top) ==
    IF ~isdir(fsys, top) \/ ~fsys[top].listable THEN <<>>
    ELSE walk_subdirs(fsys, top, fsys[top].dirs)
            \o <<[root |-> top, dirs |-> fsys[top].dirs, files |-> fsys[top].files]>>

----------------------------------------------------------------------------
(* DiskScanner: construction and the pure helpers *)

default_skip ==
    { <<"/", "p", "r", "o", "c">>, <<"/", "s", "y", "s">>, <<"/", "d", "e", "v">>,
      <<"/", "r", "u", "n">>, <<"/", "s", "n", "a", "p">>,
      <<"/", "v", "a", "r", "/", "s", "n", "a", "p">>, <<"/", "t", "m", "p">>,
      <<"/", "v", "a", "r", "/", "t", "m", "p">> }

\* DiskScanner.__init__
DiskScanner(skip_paths, max_depth) ==
    [ skip_paths |-> skip_paths \cup default_skip,
      max_depth |-> max_depth,
      running |-> FALSE,
      cancelled |-> FALSE,
      progress_callback |-> FALSE ]

\* the exact match alone, without the check for descendants
should_skip_exact(skip_paths, path) == path \in skip_paths

\* a plain string-prefix match
should_skip_prefix(skip_paths, path) ==
    \E skip \in skip_paths : startswith(path, skip)

\* DiskScanner._should_skip
should_skip(skip_paths, path) ==
    \/ path \in skip_paths
    \/ \E skip \in skip_paths : startswith(path, skip \o <<"/">>)

\* the depth counted from the filesystem root instead of the scan root
get_depth_absolute(path, base_path) == Len(nonempty(split(path)))

\* every directory taken to be at the depth of the scan root
get_depth_zero(path, base_path) == 0

\* DiskScanner._get_depth
get_depth(path, base_path) ==
    IF path = base_path THEN 0
    ELSE Len(split(relpath(path, base_path)))

----------------------------------------------------------------------------
(* Database: the tables and the statements of models.py *)

\* Database.create_snapshot: the inserted row
new_snapshot(mount_point) ==
    [ mount_point |-> mount_point, status |-> "running", completed_at |-> 0,
      total_size |-> 0, total_files |-> 0, total_dirs |-> 0 ]

\* Database.complete_snapshot: UPDATE snapshots SET ... WHERE id = ?
complete_snapshot(snaps, snapshot_id, total_size, total_files, total_dirs, ts) ==
    [ i \in DOMAIN snaps |->
        IF i = snapshot_id
        THEN [snaps[i] EXCEPT !.completed_at = ts, !.total_size = total_size,
                              !.total_files = total_files, !.total_dirs = total_dirs,
                              !.status = "completed"]
        ELSE snaps[i] ]

\* the UPDATE without its WHERE clause
fail_snapshot_all_rows(snaps, snapshot_id, ts) ==
    [ i \in DOMAIN snaps |-> [snaps[i] EXCEPT !.completed_at = ts, !.status = "failed"] ]

\* Database.fail_snapshot: UPDATE snapshots SET completed_at, status WHERE id = ?
fail_snapshot(snaps, snapshot_id, ts) ==
    [ i \in DOMAIN snaps |->
        IF i = snapshot_id
        THEN [snaps[i] EXCEPT !.completed_at = ts, !.status = "failed"]
        ELSE snaps[i] ]

\* Database.log_error: the inserted row
error_row(snapshot_id, path, error_type, message) ==
    [ snapshot_id |-> snapshot_id, path |-> path,
      error_type |-> error_type, error_message |-> message ]

\* the error row classified by the type of the exception instead of FATAL
fatal_error_by_type(snapshot_id, error) == error_row(snapshot_id, Root, "Exception", error)

\* Database.fail_snapshot: INSERT INTO scan_errors (..., '/', 'FATAL', ?)
fatal_error(snapshot_id, error) == error_row(snapshot_id, Root, "FATAL", error)

\* the batch stored ahead of the rows stored before it
insert_entries_batch_first(rows, snapshot_id, batch) ==
    [i \in 1..Len(batch) |->
        [ snapshot_id |-> snapshot_id, path |-> batch[i].path,
          name |-> batch[i].name, size |-> batch[i].size,
          file_count |-> batch[i].file_count, dir_count |-> batch[i].dir_count,
          depth |-> batch[i].depth, parent_path |-> batch[i].parent_path,
          is_dir |-> batch[i].is_dir ]] \o rows

\* Database.insert_entries_batch: the rows, in the order of the batch
insert_entries_batch(rows, snapshot_id, batch) ==
    rows \o [i \in 1..Len(batch) |->
                [ snapshot_id |-> snapshot_id, path |-> batch[i].path,
                  name |-> batch[i].name, size |-> batch[i].size,
                  file_count |-> batch[i].file_count, dir_count |-> batch[i].dir_count,
                  depth |-> batch[i].depth, parent_path |-> batch[i].parent_path,
                  is_dir |-> batch[i].is_dir ]]

----------------------------------------------------------------------------
(* Task state *)

NoneTask == 0        \* ScanScheduler._scan_task = None

AlreadyInProgress == "Scan already in progress"
TriggerBusy == "A scan is already in progress"
NoMountPoint == "Mount point does not exist"
CancelledByUser == "Cancelled by user"
StorageError == "database is locked"             \* sqlite3.OperationalError from a storage call
CallbackError == "Set changed size during iteration"  \* RuntimeError from the progress callback

Stats0 == [total_size |-> 0, total_files |-> 0, total_dirs |-> 0, errors |-> 0]

\* scan()'s locals at entry (lines 81-90); dir_sizes and entries_batch are
\* created empty at lines 105-106
Locals0 ==
    [ mount_point |-> NonePath, snapshot_id |-> NoneId, stats |-> Stats0,
      dir_sizes |-> <<>>, entries_batch |-> <<>>, pos |-> 0, dir_entry |-> <<>> ]

\* a task's run_scan locals; snapshot_ids is bookkeeping of the model: the ids of
\* the snapshots the run's scans created, in order
Run0 == [kind |-> "none", scanner |-> 0, request |-> <<>>, mount_points |-> <<>>,
         idx |-> 0, results |-> <<>>, snapshot_ids |-> <<>>]

\* a storage call or a callback may raise while the environment has failures left
Outcomes == IF env.faults > 0 THEN {TRUE, FALSE} ELSE {TRUE}

Fault == [env EXCEPT !.faults = @ - 1]

Finished(t) == pc[t] \in {"run_done", "task_failed"}

----------------------------------------------------------------------------
(* scanner.py: DiskScanner.scan *)

\* the guard moved inside the try block: finally clears _running
scan_reject_in_try(t) ==
    /\ pc' = [pc EXCEPT ![t] = "scan_raised"]
    /\ exc' = [exc EXCEPT ![t] = AlreadyInProgress]
    /\ scanner' = [scanner EXCEPT ![run[t].scanner].running = FALSE]
    /\ UNCHANGED scan

\* scan(), lines 76-77: raise RuntimeError, before the try block (no finally)
scan_reject(t) ==
    /\ pc' = [pc EXCEPT ![t] = "scan_raised"]
    /\ exc' = [exc EXCEPT ![t] = AlreadyInProgress]
    /\ UNCHANGED <<scanner, scan>>

\* scan(), lines 76-96: the guard, the flags, the mount point check
ScanEnter(t) ==
    /\ pc[t] = "call_scan"
    /\ LET s == run[t].scanner
           mount_point == abspath(run[t].mount_points[run[t].idx])
       IN  IF scanner[s].running
           THEN scan_reject(t)
           ELSE /\ scanner' = [scanner EXCEPT ![s].running = TRUE, ![s].cancelled = FALSE]
                /\ scan' = [scan EXCEPT ![t] = [Locals0 EXCEPT !.mount_point = mount_point]]
                /\ IF ~isdir(fs, mount_point)
                   THEN /\ pc' = [pc EXCEPT ![t] = "except"]
                        /\ exc' = [exc EXCEPT ![t] = NoMountPoint]
                   ELSE /\ pc' = [pc EXCEPT ![t] = "create_snapshot"]
                        /\ exc' = [exc EXCEPT ![t] = NoneMsg]
    /\ UNCHANGED <<cfgVars, reply, dbVars, scan_task, run, env>>

\* scan(), lines 100-106: await self.db.create_snapshot(mount_point)
CreateSnapshot(t) ==
    /\ pc[t] = "create_snapshot"
    /\ \E ok \in Outcomes :
         IF ok
         THEN /\ snapshots' = (next_id :> new_snapshot(scan[t].mount_point)) @@ snapshots
              /\ next_id' = next_id + 1
              /\ scan' = [scan EXCEPT ![t].snapshot_id = next_id]
              /\ run' = [run EXCEPT ![t].snapshot_ids = Append(@, next_id)]
              /\ pc' = [pc EXCEPT ![t] = "walk"]
              /\ UNCHANGED <<exc, env>>
         ELSE /\ pc' = [pc EXCEPT ![t] = "except"]
              /\ exc' = [exc EXCEPT ![t] = StorageError]
              /\ env' = Fault
              /\ UNCHANGED <<snapshots, next_id, scan, run>>
    /\ UNCHANGED <<cfgVars, reply, entries, scan_errors, now, scan_task, scanner>>

\* scan(), lines 122-132: the directory's entry before its files are read
new_dir_entry(root, depth, mount_point) ==
    [ path |-> root,
      name |-> IF basename(root) # <<>> THEN basename(root) ELSE root,
      size |-> 0, file_count |-> 0, dir_count |-> 0,
      depth |-> depth,
      parent_path |-> IF root # mount_point THEN dirname(root) ELSE NonePath,
      is_dir |-> 1 ]

\* the loop without the check of the cancellation flag at lines 111-113
WalkNext_unchecked(t) ==
    /\ pc[t] = "walk"
    /\ LET s == run[t].scanner
           items == walk(fs, scan[t].mount_point)
           pos == scan[t].pos + 1
           root == items[pos].root
           depth == get_depth(root, scan[t].mount_point)
       IN  IF pos > Len(items)
           THEN /\ pc' = [pc EXCEPT ![t] = "flush_final"]
                /\ UNCHANGED scan
           ELSE IF should_skip(scanner[s].skip_paths, root)
                   \/ (scanner[s].max_depth > 0 /\ depth > scanner[s].max_depth)
           THEN /\ scan' = [scan EXCEPT ![t].pos = pos]
                /\ UNCHANGED pc
           ELSE /\ scan' = [scan EXCEPT ![t].pos = pos,
                                        ![t].dir_entry =
                                            new_dir_entry(root, depth, scan[t].mount_point)]
                /\ pc' = [pc EXCEPT ![t] = "files"]
    /\ UNCHANGED <<cfgVars, reply, dbVars, scan_task, scanner, run, exc, env>>

\* scan(), lines 109-132: the next directory of the walk, the cancellation check,
\* the skip check and the depth check
WalkNext(t) ==
    /\ pc[t] = "walk"
    /\ LET s == run[t].scanner
           items == walk(fs, scan[t].mount_point)
           pos == scan[t].pos + 1
           root == items[pos].root
           depth == get_depth(root, scan[t].mount_point)
       IN  IF pos > Len(items) \/ scanner[s].cancelled
           THEN \* the walk is exhausted, or break
                /\ pc' = [pc EXCEPT ![t] = "flush_final"]
                /\ UNCHANGED scan
           ELSE IF should_skip(scanner[s].skip_paths, root)
                   \/ (scanner[s].max_depth > 0 /\ depth > scanner[s].max_depth)
           THEN \* continue
                /\ scan' = [scan EXCEPT ![t].pos = pos]
                /\ UNCHANGED pc
           ELSE /\ scan' = [scan EXCEPT ![t].pos = pos,
                                        ![t].dir_entry =
                                            new_dir_entry(root, depth, scan[t].mount_point)]
                /\ pc' = [pc EXCEPT ![t] = "files"]
    /\ UNCHANGED <<cfgVars, reply, dbVars, scan_task, scanner, run, exc, env>>

RECURSIVE sum_sizes(_)
sum_sizes(files) ==
    IF files = <<>> THEN 0 ELSE Head(files).size + sum_sizes(Tail(files))

\* str(e) of the OSError that os.lstat raised
strerror(err) ==
    IF err = "PermissionError" THEN "Permission denied" ELSE "No such file or directory"

\* scan(), lines 135-150: the files whose os.lstat succeeded
measured(files) == SelectSeq(files, LAMBDA f : f.err = "")

\* scan(), lines 145-150: the files whose os.lstat raised
unreadable(files) == SelectSeq(files, LAMBDA f : f.err # "")

\* every listed file added, measured or not
add_files_unmeasured(dir_entry, files) ==
    [dir_entry EXCEPT !.size = @ + sum_sizes(files), !.file_count = @ + Len(files)]

\* scan(), lines 141-142: the directory's own files added to its entry
add_files(dir_entry, files) ==
    [dir_entry EXCEPT !.size = @ + sum_sizes(measured(files)),
                      !.file_count = @ + Len(measured(files))]

\* the entry without the sizes of its subdirectories
add_subdirs_skipped(dir_entry, root, dirs, dir_sizes) == dir_entry

RECURSIVE add_subdirs(_, _, _, _)
\* scan(), lines 153-159: the already computed subdirectories added to the entry
add_subdirs(dir_entry, root, dirs, dir_sizes) ==
    IF dirs = <<>> THEN dir_entry
    ELSE LET dirpath == path_join(root, Head(dirs))
             added == IF dirpath \in DOMAIN dir_sizes
                      THEN [dir_entry EXCEPT
                               !.size = @ + dir_sizes[dirpath].size,
                               !.file_count = @ + dir_sizes[dirpath].file_count,
                               !.dir_count = @ + dir_sizes[dirpath].dir_count + 1]
                      ELSE dir_entry
         IN  add_subdirs(added, root, Tail(dirs), dir_sizes)

\* the statistics counting every file of the directory, measured or not
add_stats_all_files(stats, files) ==
    [stats EXCEPT !.total_files = @ + Len(files),
                  !.total_size = @ + sum_sizes(files),
                  !.errors = @ + Len(unreadable(files)),
                  !.total_dirs = @ + 1]

\* scan(), lines 143-146, 163: the running statistics after one directory
add_stats(stats, files) ==
    [stats EXCEPT !.total_files = @ + Len(measured(files)),
                  !.total_size = @ + sum_sizes(measured(files)),
                  !.errors = @ + Len(unreadable(files)),
                  !.total_dirs = @ + 1]

\* scan(), lines 147-150: the rows log_error appends for the first n unreadable files
logged_errors(snapshot_id, root, files, n) ==
    [i \in 1..n |->
        error_row(snapshot_id, path_join(root, unreadable(files)[i].name),
                  unreadable(files)[i].err, strerror(unreadable(files)[i].err))]

\* scan(), lines 134-169: the files of the directory (one log_error per file
\* that cannot be read), its subdirectories, dir_sizes, the batch.
\* failed = k > 0: the k-th log_error raises.
WalkFiles(t) ==
    /\ pc[t] = "files"
    /\ LET item == walk(fs, scan[t].mount_point)[scan[t].pos]
           root == item.root
           bad == Len(unreadable(item.files))
           dir_entry == add_subdirs(add_files(scan[t].dir_entry, item.files),
                                    root, item.dirs, scan[t].dir_sizes)
           batch == Append(scan[t].entries_batch, dir_entry)
       IN  \E failed \in 0..(IF env.faults > 0 THEN bad ELSE 0) :
             IF failed = 0
             THEN /\ scan_errors' = scan_errors
                        \o logged_errors(scan[t].snapshot_id, root, item.files, bad)
                  /\ scan' = [scan EXCEPT ![t].dir_entry = <<>>,
                                          ![t].dir_sizes = (root :> dir_entry) @@ @,
                                          ![t].stats = add_stats(@, item.files),
                                          ![t].entries_batch = batch]
                  /\ pc' = [pc EXCEPT ![t] =
                               IF Len(batch) >= BATCH_SIZE THEN "flush" ELSE "walk"]
                  /\ UNCHANGED <<exc, env>>
             ELSE /\ scan_errors' = scan_errors
                        \o logged_errors(scan[t].snapshot_id, root, item.files, failed - 1)
                  /\ pc' = [pc EXCEPT ![t] = "except"]
                  /\ exc' = [exc EXCEPT ![t] = StorageError]
                  /\ env' = Fault
                  /\ UNCHANGED scan
    /\ UNCHANGED <<cfgVars, reply, snapshots, entries, next_id, now, scan_task, scanner, run>>

\* scan(), lines 169-180: the full batch is inserted and cleared, then the
\* progress callback is called.
\* step = "insert": insert_entries_batch raises; "callback": the callback raises.
WalkFlush(t) ==
    /\ pc[t] = "flush"
    /\ LET s == run[t].scanner
           steps == {"ok"} \cup (IF env.faults > 0 THEN {"insert"} ELSE {})
                           \cup (IF env.faults > 0 /\ scanner[s].progress_callback
                                 THEN {"callback"} ELSE {})
       IN  \E step \in steps :
             /\ entries' = IF step = "insert" THEN entries
                           ELSE insert_entries_batch(entries, scan[t].snapshot_id,
                                                     scan[t].entries_batch)
             /\ scan' = IF step = "insert" THEN scan
                        ELSE [scan EXCEPT ![t].entries_batch = <<>>]
             /\ pc' = [pc EXCEPT ![t] = IF step = "ok" THEN "walk" ELSE "except"]
             /\ exc' = IF step = "ok" THEN exc
                       ELSE [exc EXCEPT ![t] =
                                IF step = "insert" THEN StorageError ELSE CallbackError]
             /\ env' = IF step = "ok" THEN env ELSE Fault
    /\ UNCHANGED <<cfgVars, reply, snapshots, scan_errors, next_id, now, scan_task, scanner, run>>

\* the final flush left out once the scan is cancelled
FlushFinal_unless_cancelled(t) ==
    /\ pc[t] = "flush_final"
    /\ IF scan[t].entries_batch # <<>> /\ ~scanner[run[t].scanner].cancelled
       THEN /\ entries' = insert_entries_batch(entries, scan[t].snapshot_id,
                                               scan[t].entries_batch)
            /\ pc' = [pc EXCEPT ![t] = "finish"]
       ELSE /\ pc' = [pc EXCEPT ![t] = "finish"]
            /\ UNCHANGED entries
    /\ UNCHANGED <<cfgVars, reply, snapshots, scan_errors, next_id, now, scan_task, scanner,
                   run, scan, exc, env>>

\* the walk ends without the insert of the remaining entries
FlushFinal_dropped(t) ==
    /\ pc[t] = "flush_final"
    /\ pc' = [pc EXCEPT ![t] = "finish"]
    /\ UNCHANGED <<cfgVars, reply, dbVars, scan_task, scanner, run, scan, exc, env>>

\* scan(), lines 182-186: the remaining entries are inserted
FlushFinal(t) ==
    /\ pc[t] = "flush_final"
    /\ IF scan[t].entries_batch # <<>>
       THEN \E ok \in Outcomes :
              IF ok
              THEN /\ entries' = insert_entries_batch(entries, scan[t].snapshot_id,
                                                      scan[t].entries_batch)
                   /\ pc' = [pc EXCEPT ![t] = "finish"]
                   /\ UNCHANGED <<exc, env>>
              ELSE /\ pc' = [pc EXCEPT ![t] = "except"]
                   /\ exc' = [exc EXCEPT ![t] = StorageError]
                   /\ env' = Fault
                   /\ UNCHANGED entries
       ELSE /\ pc' = [pc EXCEPT ![t] = "finish"]
            /\ UNCHANGED <<entries, exc, env>>
    /\ UNCHANGED <<cfgVars, reply, snapshots, scan_errors, next_id, now, scan_task, scanner,
                   run, scan>>

\* scan(), lines 209-212 after a try block that did not raise: finally, return stats
scan_return(t) ==
    /\ scanner' = [scanner EXCEPT ![run[t].scanner].running = FALSE]
    /\ pc' = [pc EXCEPT ![t] = "scan_returned"]

\* scan(), lines 188-202 and 209-212: complete_snapshot, or fail_snapshot when
\* the scan was cancelled; then finally and return stats
Finish(t) ==
    /\ pc[t] = "finish"
    /\ LET s == run[t].scanner
           st == scan[t].stats
       IN  IF ~scanner[s].cancelled
           THEN \E ok \in Outcomes :
                  IF ok
                  THEN /\ snapshots' = complete_snapshot(snapshots, scan[t].snapshot_id,
                                           st.total_size, st.total_files, st.total_dirs, now)
                       /\ now' = now + 1
                       /\ scan_return(t)
                       /\ UNCHANGED <<scan_errors, exc, env>>
                  ELSE /\ pc' = [pc EXCEPT ![t] = "except"]
                       /\ exc' = [exc EXCEPT ![t] = StorageError]
                       /\ env' = Fault
                       /\ UNCHANGED <<snapshots, scan_errors, now, scanner>>
           ELSE \E ok \in Outcomes :
                  IF ok
                  THEN /\ snapshots' = fail_snapshot(snapshots, scan[t].snapshot_id, now)
                       /\ scan_errors' = Append(scan_errors,
                                            fatal_error(scan[t].snapshot_id, CancelledByUser))
                       /\ now' = now + 1
                       /\ scan_return(t)
                       /\ UNCHANGED <<exc, env>>
                  ELSE /\ pc' = [pc EXCEPT ![t] = "except"]
                       /\ exc' = [exc EXCEPT ![t] = StorageError]
                       /\ env' = Fault
                       /\ UNCHANGED <<snapshots, scan_errors, now, scanner>>
    /\ UNCHANGED <<cfgVars, reply, entries, next_id, scan_task, run, scan>>

\* the exception propagating without the finally clause
scan_raise_no_finally(t) ==
    /\ pc' = [pc EXCEPT ![t] = "scan_raised"]
    /\ UNCHANGED scanner

\* scan(), lines 209-210 after the except clause: finally, and the exception
\* propagates to the caller
scan_raise(t) ==
    /\ scanner' = [scanner EXCEPT ![run[t].scanner].running = FALSE]
    /\ pc' = [pc EXCEPT ![t] = "scan_raised"]

\* scan(), lines 204-210: except Exception: fail_snapshot when a snapshot was
\* created, then raise; finally. When fail_snapshot itself raises, nothing is
\* committed and its exception is the one that propagates.
Handler(t) ==
    /\ pc[t] = "except"
    /\ IF scan[t].snapshot_id # NoneId
       THEN \E ok \in Outcomes :
              IF ok
              THEN /\ snapshots' = fail_snapshot(snapshots, scan[t].snapshot_id, now)
                   /\ scan_errors' = Append(scan_errors,
                                            fatal_error(scan[t].snapshot_id, exc[t]))
                   /\ now' = now + 1
                   /\ UNCHANGED <<exc, env>>
              ELSE /\ exc' = [exc EXCEPT ![t] = StorageError]
                   /\ env' = Fault
                   /\ UNCHANGED <<snapshots, scan_errors, now>>
       ELSE UNCHANGED <<snapshots, scan_errors, now, exc, env>>
    /\ scan_raise(t)
    /\ UNCHANGED <<cfgVars, reply, entries, next_id, scan_task, run, scan>>

\* DiskScanner.cancel
Cancel(s) ==
    /\ s \in DOMAIN scanner
    /\ ~scanner[s].cancelled
    /\ scanner' = [scanner EXCEPT ![s].cancelled = TRUE]
    /\ UNCHANGED <<cfgVars, reply, dbVars, scan_task, taskVars, env>>

----------------------------------------------------------------------------
(* scanner.py: run_scan *)

\* run_scan, lines 252-263: one result per scan() call
result(mount_point, status, stats, error) ==
    [mount_point |-> mount_point, status |-> status, stats |-> stats, error |-> error]

\* run_scan, lines 249-265: the call returned or raised; its result is appended
\* and the loop goes on to the next mount point, or returns the results
RunScanCollect(t) ==
    /\ pc[t] \in {"scan_returned", "scan_raised"}
    /\ run[t].kind \in {"manual", "scheduled"}
    /\ LET mount_point == run[t].mount_points[run[t].idx]
           res == IF pc[t] = "scan_returned"
                  THEN result(mount_point, "success", scan[t].stats, NoneMsg)
                  ELSE result(mount_point, "failed", Stats0, exc[t])
       IN  run' = [run EXCEPT ![t].results = Append(@, res), ![t].idx = @ + 1]
    /\ pc' = [pc EXCEPT ![t] =
                 IF run[t].idx + 1 > Len(run[t].mount_points) THEN "run_done"
                 ELSE "call_scan"]
    /\ UNCHANGED <<cfgVars, reply, dbVars, scan_task, scanner, scan, exc, env>>

----------------------------------------------------------------------------
(* scheduler.py and server.py: how a scan is triggered *)

\* ScanScheduler.is_scan_running
is_scan_running == scan_task # NoneTask /\ ~Finished(scan_task)

IdleTasks == {t \in Tasks : pc[t] = "idle"}

\* the task a trigger starts: the first unused one
NewTask == CHOOSE t \in IdleTasks : \A u \in IdleTasks : t <= u

\* server.trigger_scan (POST /api/scan): 409 while is_scan_running(), else the
\* background task _run_scan_task is created
PostScan ==
    /\ IdleTasks # {}
    /\ env.triggers > 0
    /\ \E request \in env.requests :
         IF is_scan_running
         THEN UNCHANGED taskVars       \* HTTPException(409)
         ELSE /\ pc' = [pc EXCEPT ![NewTask] = "bg_task"]
              /\ run' = [run EXCEPT ![NewTask] =
                            [Run0 EXCEPT !.kind = "manual", !.request = request]]
              /\ UNCHANGED <<scan, exc>>
    /\ env' = [env EXCEPT !.triggers = @ - 1]
    /\ UNCHANGED <<cfgVars, reply, dbVars, scan_task, scanner>>

\* ScanScheduler.start, lines 50-56: the cron job daily_scan runs
\* _run_scheduled_scan (APScheduler runs one instance of a job at a time)
ScheduledScan ==
    /\ IdleTasks # {}
    /\ env.triggers > 0
    /\ \A t \in Tasks : run[t].kind = "scheduled" => Finished(t)
    /\ pc' = [pc EXCEPT ![NewTask] = "bg_task"]
    /\ run' = [run EXCEPT ![NewTask] = [Run0 EXCEPT !.kind = "scheduled"]]
    /\ env' = [env EXCEPT !.triggers = @ - 1]
    /\ UNCHANGED <<cfgVars, reply, dbVars, scan_task, scanner, scan, exc>>

\* ScanScheduler.trigger_scan, lines 110-127, as called by _run_scan_task and
\* _run_scheduled_scan, and run_scan, lines 244-248: the guard on _scan_task,
\* the mount points (the request's, or the configured ones), a new DiskScanner
\* with the progress callback
TriggerScan(t) ==
    /\ pc[t] = "bg_task"
    /\ IF scan_task # NoneTask /\ ~Finished(scan_task)
       THEN /\ pc' = [pc EXCEPT ![t] = "task_failed"]
            /\ exc' = [exc EXCEPT ![t] = TriggerBusy]
            /\ UNCHANGED <<scanner, run>>
       ELSE LET mount_points == IF run[t].request = <<>> THEN config.mount_points
                                ELSE run[t].request
            IN  /\ scanner' = (t :> [DiskScanner(config.skip_paths, config.max_depth)
                                        EXCEPT !.progress_callback = TRUE]) @@ scanner
                /\ run' = [run EXCEPT ![t].scanner = t,
                                      ![t].mount_points = mount_points,
                                      ![t].idx = 1]
                /\ pc' = [pc EXCEPT ![t] =
                             IF mount_points = <<>> THEN "run_done" ELSE "call_scan"]
                /\ UNCHANGED exc
    /\ UNCHANGED <<cfgVars, reply, dbVars, scan_task, scan, env>>

----------------------------------------------------------------------------
(* A caller of one DiskScanner instance: await scanner.scan(mount_point) *)

ClientCall(t) ==
    /\ pc[t] \in {"idle", "scan_returned", "scan_raised"}
    /\ env.calls > 0
    /\ \E s \in DOMAIN scanner, mount_point \in env.mounts :
         run' = [run EXCEPT ![t] = [Run0 EXCEPT !.kind = "client", !.scanner = s,
                                                !.mount_points = <<mount_point>>,
                                                !.idx = 1]]
    /\ pc' = [pc EXCEPT ![t] = "call_scan"]
    /\ env' = [env EXCEPT !.calls = @ - 1]
    /\ UNCHANGED <<cfgVars, reply, dbVars, scan_task, scanner, scan, exc>>

----------------------------------------------------------------------------
(* Specifications *)

\* the configuration the server loads: scanner.mount_points, scanner.skip_paths,
\* scanner.max_depth
Config(mount_points, skip_paths, max_depth) ==
    [mount_points |-> mount_points, skip_paths |-> skip_paths, max_depth |-> max_depth]

\* what the environment does in one run: the triggers that arrive, the bodies
\* of the POST requests, the calls of a scanner's callers, the failures
Env(triggers, requests, calls, mounts) ==
    [triggers |-> triggers, requests |-> requests, calls |-> calls, mounts |-> mounts,
     faults |-> MaxFaults]

\* one trigger at a time, over the configurations of the scanner
SingleRuns ==
    { <<Config(mount_points, skip_paths, max_depth), Env(1, {<<>>}, 0, {})>> :
        mount_points \in {<<Dir_a>>, <<Root>>},
        skip_paths \in {{}, {Dir_ab}},
        max_depth \in {0, 1} }

\* triggers that overlap: POST /api/scan with and without mount points, and the
\* daily scan
OverlappingRuns ==
    { <<Config(<<Dir_ab_slash>>, {}, 0),
        Env(MaxTasks, {<<>>, <<File_af, Dir_abc>>}, 0, {})>> }

InitDb ==
    /\ snapshots = <<>>
    /\ entries = <<>>
    /\ scan_errors = <<>>
    /\ next_id = 1
    /\ now = 1

InitTasks ==
    /\ pc = [t \in Tasks |-> "idle"]
    /\ run = [t \in Tasks |-> Run0]
    /\ scan = [t \in Tasks |-> Locals0]
    /\ exc = [t \in Tasks |-> NoneMsg]

\* no read query was answered yet
NoReply == [op |-> "none"]

\* the server after startup: no scan was triggered yet
Init ==
    /\ \E r \in SingleRuns \cup OverlappingRuns : config = r[1] /\ env = r[2]
    /\ fs = Fs0
    /\ InitDb
    /\ InitTasks
    /\ scan_task = NoneTask
    /\ scanner = <<>>
    /\ reply = NoReply

\* one DiskScanner instance, constructed by a program that lets several
\* coroutines call it
InitShared ==
    /\ config = Config(<<>>, {}, 0)
    /\ env = Env(0, {}, MaxCalls, {Dir_ab, File_af})
    /\ fs = Fs0
    /\ InitDb
    /\ InitTasks
    /\ scan_task = NoneTask
    /\ scanner = (1 :> DiskScanner(config.skip_paths, config.max_depth))
    /\ reply = NoReply

ScanStep(t) ==
    \/ ScanEnter(t)
    \/ CreateSnapshot(t)
    \/ WalkNext(t)
    \/ WalkFiles(t)
    \/ WalkFlush(t)
    \/ FlushFinal(t)
    \/ Finish(t)
    \/ Handler(t)

Next ==
    \/ PostScan
    \/ ScheduledScan
    \/ \E t \in Tasks : TriggerScan(t)
    \/ \E t \in Tasks : ScanStep(t)
    \/ \E t \in Tasks : RunScanCollect(t)
    \/ \E s \in Tasks : Cancel(s)

Spec == Init /\ [][Next]_vars

NextShared ==
    \/ \E t \in Tasks : ClientCall(t)
    \/ \E t \in Tasks : ScanStep(t)
    \/ \E s \in Tasks : Cancel(s)

SpecShared == InitShared /\ [][NextShared]_vars

----------------------------------------------------------------------------
(* The claims *)

RunningSnapshots == {i \in DOMAIN snapshots : snapshots[i].status = "running"}

Terminal(row) == row.status \in {"completed", "failed"}

\* the FATAL rows of a snapshot in scan_errors
FatalRows(id) ==
    {k \in 1..Len(scan_errors) :
        scan_errors[k].snapshot_id = id /\ scan_errors[k].error_type = "FATAL"}

\* a scan() call of task t is between its guard and its return
InScan(t) ==
    pc[t] \in {"create_snapshot", "walk", "files", "flush", "flush_final", "finish",
               "except"}

\* C1: under any interleaving of manual triggers (POST /api/scan) and scheduled
\* scans, at most one snapshot has status 'running' at any time.
C1_AtMostOneRunning == Cardinality(RunningSnapshots) <= 1

\* C2: a scan() call made while a scan of the same scanner is running raises
\* 'Scan already in progress' and changes nothing: no table, no flag of the
\* scanner (is_running() stays true, the cancellation flag is as it was), and
\* nothing of the scan in progress or of any other caller.
C2_RejectedCallMutatesNothing ==
    [][\A t \in Tasks :
          (pc[t] = "call_scan" /\ scanner[run[t].scanner].running /\ pc'[t] # pc[t])
          => /\ pc'[t] = "scan_raised"
             /\ exc'[t] = AlreadyInProgress
             /\ scanner' = scanner
             /\ scanner'[run[t].scanner].running
             /\ dbVars' = dbVars
             /\ scan' = scan
             /\ \A u \in Tasks \ {t} : pc'[u] = pc[u] /\ run'[u] = run[u] /\ exc'[u] = exc[u]
      ]_vars

\* C2 witness: a caller was rejected while another caller's scan, of the same
\* scanner, is in the middle of a directory
C2_Witness ==
    \E t, u \in Tasks :
        /\ t # u
        /\ run[t].scanner = run[u].scanner
        /\ pc[t] = "scan_raised" /\ exc[t] = AlreadyInProgress
        /\ pc[u] = "files"
        /\ scanner[run[u].scanner].running

\* C3: once a snapshot is 'completed' or 'failed', its row (status, completion
\* timestamp, totals) never changes again.
C3_TerminalIsFinal ==
    [][\A i \in DOMAIN snapshots :
          (Terminal(snapshots[i]) /\ i \in DOMAIN snapshots')
          => snapshots'[i] = snapshots[i]
      ]_vars

\* C3 witness: a snapshot was completed and, later, another one was failed
C3_Witness ==
    \E i, j \in DOMAIN snapshots :
        /\ i < j
        /\ snapshots[i].status = "completed"
        /\ snapshots[j].status = "failed"
        /\ snapshots[j].completed_at > snapshots[i].completed_at

\* the call of task t has returned to its caller, normally or by raising
Returned(t) == pc[t] \in {"scan_returned", "scan_raised"}

\* the snapshots that scan() calls of task t created and that are not the
\* snapshot of a call still in progress
LeftBehind(t) ==
    {run[t].snapshot_ids[k] : k \in 1..Len(run[t].snapshot_ids)}
        \ (IF InScan(t) THEN {scan[t].snapshot_id} ELSE {})

\* C4: when a scan() call that created a snapshot has returned or raised, the
\* snapshot is 'completed', with the totals the call counted, or 'failed'; it
\* is never still 'running'.
C4_ScanEndsTerminal ==
    \A t \in Tasks :
        /\ \A id \in LeftBehind(t) \cap DOMAIN snapshots : Terminal(snapshots[id])
        /\ (pc[t] = "scan_returned" /\ scan[t].snapshot_id \in DOMAIN snapshots
            /\ snapshots[scan[t].snapshot_id].status = "completed")
           => /\ snapshots[scan[t].snapshot_id].total_size = scan[t].stats.total_size
              /\ snapshots[scan[t].snapshot_id].total_files = scan[t].stats.total_files
              /\ snapshots[scan[t].snapshot_id].total_dirs = scan[t].stats.total_dirs

\* what is left of a scan() call in progress: a number that bounds the steps
\* the call can still take, from the directories the walk has not yet yielded
Remaining(t) ==
    LET left == Len(walk(fs, scan[t].mount_point)) - scan[t].pos
    IN  CASE pc[t] = "create_snapshot" -> 3 * left + 8
          [] pc[t] = "files" -> 3 * left + 7
          [] pc[t] = "flush" -> 3 * left + 6
          [] pc[t] = "walk" -> 3 * left + 5
          [] pc[t] = "flush_final" -> 4
          [] pc[t] = "finish" -> 3
          [] pc[t] = "except" -> 2
          [] OTHER -> 0

\* the termination half of C4: over the finite tree every step of a scan()
\* call brings the call nearer to its return
ScanTerminates ==
    [][\A t \in Tasks :
          (InScan(t) /\ <<pc[t], scan[t]>>' # <<pc[t], scan[t]>>)
          => \/ Returned(t)'
             \/ InScan(t)' /\ Remaining(t)' < Remaining(t)
      ]_vars

\* the rows of a snapshot in the table entries
EntriesOf(id) == {k \in 1..Len(entries) : entries[k].snapshot_id = id}

\* the rows of a snapshot that are the immediate subdirectories of a path
ChildrenOf(id, path) ==
    {j \in EntriesOf(id) : entries[j].path # path /\ dirname(entries[j].path) = path}

RECURSIVE SumOver(_, _)
SumOver(K, field) ==
    IF K = {} THEN 0
    ELSE LET k == CHOOSE x \in K : TRUE
         IN  entries[k][field] + SumOver(K \ {k}, field)

\* the size of row k is the size of the measured files of its directory plus
\* the sizes of the rows of its immediate subdirectories
SizeAddsUp(id, k) ==
    entries[k].size = sum_sizes(measured(fs[entries[k].path].files))
                      + SumOver(ChildrenOf(id, entries[k].path), "size")

\* the same for the number of files and the number of directories below
CountsAddUp(id, k) ==
    LET children == ChildrenOf(id, entries[k].path)
    IN  /\ entries[k].file_count = Len(measured(fs[entries[k].path].files))
                                   + SumOver(children, "file_count")
        /\ entries[k].dir_count = Cardinality(children) + SumOver(children, "dir_count")

\* the scan() call of task t has returned after failing its snapshot: the way
\* a cancelled scan ends
CancelledReturn(t) ==
    /\ pc[t] = "scan_returned"
    /\ scan[t].snapshot_id \in DOMAIN snapshots
    /\ snapshots[scan[t].snapshot_id].status = "failed"

\* C5: once cancel() was called the traversal stops at the next per-directory
\* check, visiting no further directory; when the cancelled scan has ended,
\* every directory entry it computed (the partial batch included) is persisted,
\* the snapshot is 'failed' with 'Cancelled by user' as its one fatal error, and
\* each persisted entry's totals are its files plus its persisted children.
C5_CancelStopsAndKeepsEntries ==
    /\ [][\A t \in Tasks :
            /\ (pc[t] = "walk" /\ scanner[run[t].scanner].cancelled
                /\ <<pc[t], scan[t]>>' # <<pc[t], scan[t]>>)
               => pc'[t] = "flush_final" /\ scan'[t] = scan[t]
            /\ (pc[t] = "finish" /\ scanner[run[t].scanner].cancelled
                /\ pc'[t] = "scan_returned")
               => snapshots'[scan[t].snapshot_id].status = "failed"
        ]_vars
    /\ [](\A t \in Tasks :
            CancelledReturn(t)
            => LET id == scan[t].snapshot_id
               IN  /\ \A k \in FatalRows(id) :
                          scan_errors[k].error_message = CancelledByUser
                   /\ Cardinality(FatalRows(id)) = 1
                   /\ \A path \in DOMAIN scan[t].dir_sizes :
                          \E k \in EntriesOf(id) :
                              /\ entries[k].path = path
                              /\ entries[k].size = scan[t].dir_sizes[path].size
                   /\ \A k \in EntriesOf(id) : SizeAddsUp(id, k) /\ CountsAddUp(id, k))

\* C5 witness: a scan was cancelled before the walk was exhausted, with a partial
\* batch not yet flushed, and has ended: parent and child are both persisted
C5_Witness ==
    \E t \in Tasks :
        /\ CancelledReturn(t)
        /\ scan[t].pos < Len(walk(fs, scan[t].mount_point))
        /\ Len(scan[t].entries_batch) = 1
        /\ Cardinality(EntriesOf(scan[t].snapshot_id)) = 3

\* C6: a cancelled scan surfaces to the caller as a failure: scan() does not
\* return normally for a snapshot that was failed as cancelled, and run_scan
\* reports no more 'success' results than its scans left snapshots that did
\* not fail.
C6_CancelledSurfacesAsFailure ==
    \A t \in Tasks :
        /\ ~CancelledReturn(t)
        /\ run[t].kind \in {"manual", "scheduled"}
           => Cardinality({k \in 1..Len(run[t].results) :
                               run[t].results[k].status = "success"})
              <= Cardinality({k \in 1..Len(run[t].snapshot_ids) :
                               snapshots[run[t].snapshot_ids[k]].status # "failed"})

\* C7: when scan() has raised after its snapshot was created, the snapshot is
\* 'failed' and the message of the exception the caller sees is recorded as
\* its fatal error; the caller never sees the exception while the snapshot is
\* 'running'.
C7_ExceptionMarksFailed ==
    \A t \in Tasks :
        (pc[t] = "scan_raised" /\ exc[t] # AlreadyInProgress
         /\ scan[t].snapshot_id \in DOMAIN snapshots)
        => /\ snapshots[scan[t].snapshot_id].status = "failed"
           /\ \E k \in FatalRows(scan[t].snapshot_id) :
                  scan_errors[k].error_message = exc[t]

\* C8: after scan() raised for a mount point that is not a directory, a
\* snapshot with status 'failed' exists for that mount point.
C8_InvalidMountLeavesFailedSnapshot ==
    \A t \in Tasks :
        (pc[t] = "scan_raised" /\ exc[t] = NoMountPoint)
        => \E i \in DOMAIN snapshots :
               /\ snapshots[i].mount_point = scan[t].mount_point
               /\ snapshots[i].status = "failed"

\* the tasks that are inside run_scan
InRunScan(t) ==
    /\ run[t].kind \in {"manual", "scheduled"}
    /\ pc[t] \notin {"idle", "bg_task", "task_failed"}

\* C9: run_scan scans its mount points one after another, never two at once (a
\* scan is called only when the previous one has ended, and none is rejected as
\* already in progress), and returns exactly one result per mount point, in
\* input order, each 'success' with statistics or 'failed' with the error
\* message; after a failed mount point the next one is scanned.
C9_OneResultPerMountPoint ==
    /\ [](\A t \in Tasks :
            InRunScan(t)
            => /\ Len(run[t].results) = run[t].idx - 1
               /\ pc[t] = "run_done" => Len(run[t].results) = Len(run[t].mount_points)
               /\ pc[t] = "call_scan" => ~scanner[run[t].scanner].running
               /\ \A k \in 1..Len(run[t].results) :
                      LET r == run[t].results[k]
                      IN  /\ r.mount_point = run[t].mount_points[k]
                          /\ \/ r.status = "success" /\ r.error = NoneMsg
                             \/ /\ r.status = "failed"
                                /\ r.error \notin {NoneMsg, AlreadyInProgress}
                                /\ r.stats = Stats0)
    /\ [][\A t \in Tasks :
            (InRunScan(t) /\ pc[t] = "scan_raised" /\ pc'[t] # pc[t])
            => /\ run'[t].results[run[t].idx].status = "failed"
               /\ run[t].idx < Len(run[t].mount_points) => pc'[t] = "call_scan"
               /\ run[t].idx = Len(run[t].mount_points) => pc'[t] = "run_done"
        ]_vars

\* C9 witness: run_scan over two mount points has returned: the first one
\* failed, the second one was scanned and counted directories
C9_Witness ==
    \E t \in Tasks :
        /\ pc[t] = "run_done"
        /\ Len(run[t].results) = 2
        /\ run[t].results[1].status = "failed"
        /\ run[t].results[2].status = "success"
        /\ run[t].results[2].stats.total_dirs > 0

\* C10: in every completed snapshot, the size of every directory entry is the
\* sum of the sizes of the measured files directly inside the directory plus
\* the sizes of the entries of its immediate subdirectories.
C10_SizeIsFilesPlusChildren ==
    \A id \in DOMAIN snapshots :
        snapshots[id].status = "completed"
        => \A k \in EntriesOf(id) : SizeAddsUp(id, k)

\* C10 witness: a completed snapshot of /a, where a file cannot be read and a
\* subdirectory cannot be listed: /a holds 7 bytes, 6 of them below /a/b
C10_Witness ==
    \E id \in DOMAIN snapshots :
        /\ snapshots[id].status = "completed"
        /\ \E k, j \in EntriesOf(id) :
               /\ entries[k].path = Dir_a /\ entries[k].size = 7
               /\ entries[j].path = Dir_ab /\ entries[j].size = 6

\* the directories of the tree strictly beneath a path
DirsBeneath(path) ==
    {p \in DOMAIN fs :
        p # path /\ startswith(p, IF path = Root THEN Root ELSE path \o <<"/">>)}

\* the scan of a mount point leaves a directory out: the skip check of line 115
\* or the depth check of line 119, under the configuration the scanners are
\* built from
Excluded(mount_point, p) ==
    \/ should_skip(config.skip_paths \cup default_skip, p)
    \/ config.max_depth > 0 /\ get_depth(p, mount_point) > config.max_depth

\* the directories beneath a path that the scan of a mount point does not exclude
Included(mount_point, path) == {p \in DirsBeneath(path) : ~Excluded(mount_point, p)}

RECURSIVE FilesIn(_)
\* the number of measured files directly inside the directories of a set
FilesIn(P) ==
    IF P = {} THEN 0
    ELSE LET p == CHOOSE x \in P : TRUE
         IN  Len(measured(fs[p].files)) + FilesIn(P \ {p})

\* C11: for every directory Entry, dir_count is the number of non-excluded
\* directories strictly beneath it, each counted once, and file_count is the
\* number of files directly inside it plus the files in all non-excluded
\* directories beneath it.
C11_CountsCoverSubtree ==
    \A k \in 1..Len(entries) :
        LET mount_point == snapshots[entries[k].snapshot_id].mount_point
            beneath == Included(mount_point, entries[k].path)
        IN  /\ entries[k].dir_count = Cardinality(beneath)
            /\ entries[k].file_count = FilesIn(beneath \cup {entries[k].path})

RECURSIVE walk_loop(_, _, _, _, _, _)
\* scan(), lines 109-163, run to the end of the walk without cancellation: the
\* dictionary dir_sizes, from the paths of the directories to their entries
walk_loop(items, i, dir_sizes, mount_point, skip_paths, max_depth) ==
    IF i > Len(items) THEN dir_sizes
    ELSE LET root == items[i].root
             depth == get_depth(root, mount_point)
             dir_entry == add_subdirs(
                              add_files(new_dir_entry(root, depth, mount_point),
                                        items[i].files),
                              root, items[i].dirs, dir_sizes)
         IN  IF should_skip(skip_paths, root) \/ (max_depth > 0 /\ depth > max_depth)
             THEN walk_loop(items, i + 1, dir_sizes, mount_point, skip_paths, max_depth)
             ELSE walk_loop(items, i + 1, (root :> dir_entry) @@ dir_sizes,
                            mount_point, skip_paths, max_depth)

\* the entries a scan of a mount point computes under the given skip paths
\* and depth limit
scan_entries_of(fsys, mount_point, skip_paths, max_depth) ==
    walk_loop(walk(fsys, mount_point), 1, <<>>, mount_point,
              skip_paths \cup default_skip, max_depth)

\* the same over the tree as it is
scan_entries(mount_point, skip_paths, max_depth) ==
    scan_entries_of(fs, mount_point, skip_paths, max_depth)

\* path is root or lies beneath it
InSubtree(path, root) ==
    path = root \/ startswith(path, IF root = Root THEN Root ELSE root \o <<"/">>)

\* a row of the table entries as the entry the scanner computed
AsEntry(k) ==
    [ path |-> entries[k].path, name |-> entries[k].name, size |-> entries[k].size,
      file_count |-> entries[k].file_count, dir_count |-> entries[k].dir_count,
      depth |-> entries[k].depth, parent_path |-> entries[k].parent_path,
      is_dir |-> entries[k].is_dir ]

\* C12: in a completed snapshot of a scan that excludes a configured path x,
\* there is no Entry for x or for any descendant of x; every ancestor's totals
\* are those of the scan without the exclusion minus what the subtree of x
\* contributes there; and the Entry of every other directory is identical to
\* the one the scan without the exclusion produces.
C12_ExclusionRemovesSubtreeOnly ==
    \A id \in DOMAIN snapshots : \A x \in config.skip_paths :
        snapshots[id].status = "completed"
        => LET without == scan_entries(snapshots[id].mount_point,
                                       config.skip_paths \ {x}, config.max_depth)
               gone == IF x \in DOMAIN without
                       THEN [size |-> without[x].size,
                             file_count |-> without[x].file_count,
                             dir_count |-> without[x].dir_count + 1]
                       ELSE [size |-> 0, file_count |-> 0, dir_count |-> 0]
           IN  /\ \A k \in EntriesOf(id) : ~InSubtree(entries[k].path, x)
               /\ {entries[k].path : k \in EntriesOf(id)}
                      = {p \in DOMAIN without : ~InSubtree(p, x)}
               /\ \A k \in EntriesOf(id) :
                      LET p == entries[k].path
                      IN  IF InSubtree(x, p)
                          THEN AsEntry(k) =
                                 [without[p] EXCEPT
                                     !.size = @ - gone.size,
                                     !.file_count = @ - gone.file_count,
                                     !.dir_count = @ - gone.dir_count]
                          ELSE AsEntry(k) = without[p]

\* C12 witness: a completed snapshot of / with /a/b excluded: /a holds its own
\* file only, / holds /a and /tmpX, and /tmpX is as without the exclusion
C12_Witness ==
    /\ config.skip_paths = {Dir_ab}
    /\ \E id \in DOMAIN snapshots :
           /\ snapshots[id].status = "completed"
           /\ snapshots[id].mount_point = Root
           /\ \E i, j, k \in EntriesOf(id) :
                  /\ entries[i].path = Root /\ entries[i].size = 17
                  /\ entries[j].path = Dir_a /\ entries[j].size = 1
                  /\ entries[k].path = Dir_tmpX /\ entries[k].size = 16

\* the number of names on a path: 0 for /, 2 for /a/b
Components(path) == Len(nonempty(split(path)))

\* C13: in every snapshot the Entry of the scan root has depth 0 and no parent
\* path; every other Entry has the directory that immediately contains it as
\* its parent path and a depth that is its parent's depth + 1 (its distance
\* from the scan root); in a completed snapshot the parent's Entry exists.
C13_RootAndParentDepth ==
    \A id \in DOMAIN snapshots : \A k \in EntriesOf(id) :
        LET e == entries[k]
            mount_point == snapshots[id].mount_point
        IN  IF e.path = mount_point
            THEN e.depth = 0 /\ e.parent_path = NonePath
            ELSE /\ e.parent_path = dirname(e.path)
                 /\ InSubtree(e.parent_path, mount_point)
                 /\ e.depth = Components(e.path) - Components(mount_point)
                 /\ \A j \in EntriesOf(id) :
                        entries[j].path = e.parent_path => e.depth = entries[j].depth + 1
                 /\ snapshots[id].status = "completed"
                    => \E j \in EntriesOf(id) : entries[j].path = e.parent_path

\* C13 witness: a snapshot of /a with the rows of /a (depth 0), /a/b (depth 1)
\* and /a/b/c (depth 2)
C13_Witness ==
    \E id \in DOMAIN snapshots :
        /\ snapshots[id].mount_point = Dir_a
        /\ \E i, j, k \in EntriesOf(id) :
               /\ entries[i].path = Dir_a /\ entries[i].depth = 0
               /\ entries[j].path = Dir_ab /\ entries[j].depth = 1
               /\ entries[k].path = Dir_abc /\ entries[k].depth = 2
               /\ entries[k].parent_path = Dir_ab

\* the tree without the files that os.lstat cannot read
WithoutUnreadable(fsys) ==
    [p \in DOMAIN fsys |-> [fsys[p] EXCEPT !.files = measured(@)]]

\* the rows of scan_errors that a snapshot has for a path
ErrorsAt(id, path) ==
    {k \in 1..Len(scan_errors) :
        scan_errors[k].snapshot_id = id /\ scan_errors[k].path = path}

\* C14: an unreadable file inside a scanned directory produces exactly one
\* ScanError, classified as the failure; the scan continues with the rest of
\* the directory (no storage call failing); and in the completed snapshot the
\* directory's Entry, like every other, is exactly the one a scan of the same
\* tree without the unreadable file produces.
C14_UnreadableFileIsLoggedOnce ==
    /\ [](\A id \in DOMAIN snapshots : \A k \in EntriesOf(id) :
            LET dir == entries[k].path
                bad == unreadable(fs[dir].files)
            IN  /\ \A i \in 1..Len(bad) :
                       LET rows == ErrorsAt(id, path_join(dir, bad[i].name))
                       IN  /\ Cardinality(rows) = 1
                           /\ \A r \in rows : scan_errors[r].error_type = bad[i].err
                /\ snapshots[id].status = "completed"
                   => AsEntry(k) = scan_entries_of(WithoutUnreadable(fs),
                                                   snapshots[id].mount_point,
                                                   config.skip_paths, config.max_depth)[dir])
    /\ [][\A t \in Tasks :
            (pc[t] = "files" /\ pc'[t] # pc[t] /\ env'.faults = env.faults)
            => /\ pc'[t] \in {"walk", "flush"}
               /\ scan'[t].stats.errors = scan[t].stats.errors
                      + Len(unreadable(walk(fs, scan[t].mount_point)[scan[t].pos].files))
        ]_vars

\* C14 witness: a completed snapshot of /a, where u cannot be read: one
\* PermissionError row for /a/u, and /a counts the three readable files
C14_Witness ==
    \E id \in DOMAIN snapshots :
        /\ snapshots[id].status = "completed"
        /\ \E r \in ErrorsAt(id, path_join(Dir_a, <<"u">>)) :
               scan_errors[r].error_type = "PermissionError"
        /\ \E k \in EntriesOf(id) :
               /\ entries[k].path = Dir_a
               /\ entries[k].file_count = 3 /\ entries[k].size = 7

\* C15: a directory under the mount point that cannot be listed, and is not
\* excluded, has in the completed snapshot an Entry of size zero and exactly
\* one persisted ScanError.
C15_UnlistableDirectoryIsRecorded ==
    \A id \in DOMAIN snapshots : \A p \in DOMAIN fs :
        (/\ snapshots[id].status = "completed"
         /\ ~fs[p].listable
         /\ InSubtree(p, snapshots[id].mount_point)
         /\ ~Excluded(snapshots[id].mount_point, p))
        => /\ \E k \in EntriesOf(id) : entries[k].path = p /\ entries[k].size = 0
           /\ Cardinality(ErrorsAt(id, p)) = 1

----------------------------------------------------------------------------
(* models.py: the growth query and the retention cleanup *)

NULL == <<>>         \* SQL NULL; a value v of a nullable column is <<v>>

Min(a, b) == IF a <= b THEN a ELSE b

\* the query without WHERE status = 'completed'
Completed_or_not == DOMAIN snapshots

\* WHERE status = 'completed'
Completed == {i \in DOMAIN snapshots : snapshots[i].status = "completed"}

\* ORDER BY id DESC in place of completed_at
newest_by_id(ids) ==
    IF ids = {} THEN {NoneId} ELSE {i \in ids : \A j \in ids : j <= i}

\* the first row of ORDER BY completed_at DESC among a set of snapshots, or
\* none; rows with the same completed_at may come in either order
newest(ids) ==
    IF ids = {} THEN {NoneId}
    ELSE {i \in ids : \A j \in ids : snapshots[j].completed_at <= snapshots[i].completed_at}

\* ROUND(growth * 100.0 / previous_size, 2), in hundredths of a percent
round_percent(growth, previous_size) ==
    (2 * growth * 10000 + previous_size) \div (2 * previous_size)

\* get_top_growth, lines 261-269: the columns of one joined row; j = 0 when the
\* LEFT JOIN found no row of the previous snapshot
growth_row(k, j) ==
    LET previous_size == IF j = 0 THEN NULL ELSE <<entries[j].size>>
        growth == entries[k].size - (IF j = 0 THEN 0 ELSE entries[j].size)
    IN  [ path |-> entries[k].path, name |-> entries[k].name,
          current_size |-> entries[k].size, previous_size |-> previous_size,
          growth |-> growth,
          growth_percent |-> IF j # 0 /\ entries[j].size > 0
                             THEN round_percent(growth, entries[j].size)
                             ELSE 10000 ]

\* get_top_growth, lines 270-275: FROM entries curr LEFT JOIN entries prev ...
\* WHERE curr.snapshot_id = latest AND curr.is_dir = 1 AND growth > 0
growth_rows(latest, previous) ==
    LET joined == { <<k, j>> \in EntriesOf(latest) \X (0..Len(entries)) :
                      LET match == {m \in EntriesOf(previous) :
                                       entries[m].path = entries[k].path}
                      IN  IF match = {} THEN j = 0 ELSE j \in match }
    IN  { growth_row(kj[1], kj[2]) :
            kj \in {x \in joined : entries[x[1]].is_dir = 1
                                   /\ growth_row(x[1], x[2]).growth > 0} }

\* ORDER BY growth DESC: the orders the rows may come in (rows of equal growth
\* in either order)
order_by_growth(rows) ==
    { s \in [1..Cardinality(rows) -> rows] :
        /\ \A a, b \in DOMAIN s : a < b => s[a] # s[b] /\ s[a].growth >= s[b].growth }

\* Database.get_top_growth(limit): the lists the query may return, each with
\* the snapshots the query compared
get_top_growth(limit) ==
    UNION { UNION { { [op |-> "get_top_growth", limit |-> limit, latest |-> latest,
                       previous |-> previous,
                       rows |-> SubSeq(s, 1, Min(limit, Len(s)))] :
                        s \in order_by_growth(growth_rows(latest, previous)) } :
                    previous \in newest(Completed \ {latest}) } :
            latest \in newest(Completed) }

\* GET /api/growth, GET /api/overview: await db.get_top_growth(limit); stored
\* is bookkeeping of the model: the number of rows the table entries held when
\* the query ran
GetTopGrowth ==
    /\ \E limit \in 1..MaxLimit : \E answer \in get_top_growth(limit) :
         reply' = answer @@ [stored |-> Len(entries)]
    /\ UNCHANGED <<config, fs, dbVars, scan_task, scanner, taskVars, env>>

\* Database.connection: a new connection of sqlite3 has PRAGMA foreign_keys
\* off, and connection() does not turn it on
foreign_keys == FALSE

\* DELETE FROM snapshots WHERE completed_at < cutoff (never true of a NULL)
expired(cutoff) ==
    {i \in DOMAIN snapshots : snapshots[i].completed_at # 0
                              /\ snapshots[i].completed_at < cutoff}

\* the rows of a child table after the snapshots in deleted are gone:
\* ON DELETE CASCADE acts only under PRAGMA foreign_keys = ON
on_delete_cascade(rows, deleted) ==
    IF foreign_keys THEN SelectSeq(rows, LAMBDA r : r.snapshot_id \notin deleted)
    ELSE rows

\* ScanScheduler._run_cleanup, Database.cleanup_old_snapshots(retention_days)
Cleanup ==
    /\ \E retention_days \in 0..MaxRetention :
         LET deleted == IF retention_days <= 0 THEN {}
                        ELSE expired(now - retention_days)
         IN  /\ snapshots' = [i \in DOMAIN snapshots \ deleted |-> snapshots[i]]
             /\ entries' = on_delete_cascade(entries, deleted)
             /\ scan_errors' = on_delete_cascade(scan_errors, deleted)
             /\ reply' = [op |-> "cleanup_old_snapshots",
                          retention_days |-> retention_days, deleted |-> deleted]
    /\ UNCHANGED <<config, fs, next_id, now, scan_task, scanner, taskVars, env>>

\* the stores the queries are asked of: what up to MaxSnapshots scans of / left
\* behind. A scan that completed measured /a and /b (or found them absent); one
\* that failed flushed /a and stopped; one still running flushed nothing yet.
Sizes_a == {NULL, <<0>>, <<100>>, <<150>>}
Sizes_b == {NULL, <<20>>}

Shapes ==
    [status : {"completed"}, a : Sizes_a, b : Sizes_b]
    \cup {[status |-> "failed", a |-> <<100>>, b |-> NULL],
          [status |-> "running", a |-> NULL, b |-> NULL]}

Histories == UNION {[1..n -> Shapes] : n \in 0..MaxSnapshots}

size_of(x) == IF x = NULL THEN 0 ELSE x[1]

\* a flushed DirEntry of a scan of /
store_entry(path, size, file_count, dir_count) ==
    [new_dir_entry(path, IF path = Root THEN 0 ELSE 1, Root)
        EXCEPT !.size = size, !.file_count = file_count, !.dir_count = dir_count]

\* the batch of one scan, in the order of the bottom-up walk
store_batch(shape) ==
    LET files(x) == IF size_of(x) > 0 THEN 1 ELSE 0
        dirs(x) == IF x = NULL THEN 0 ELSE 1
    IN  (IF shape.a = NULL THEN <<>>
         ELSE <<store_entry(Dir_a, size_of(shape.a), files(shape.a), 0)>>)
        \o (IF shape.b = NULL THEN <<>>
            ELSE <<store_entry(Dir_b, size_of(shape.b), files(shape.b), 0)>>)
        \o (IF shape.status # "completed" THEN <<>>
            ELSE <<store_entry(Root, size_of(shape.a) + size_of(shape.b),
                               files(shape.a) + files(shape.b),
                               dirs(shape.a) + dirs(shape.b))>>)

\* the snapshots row of scan i, ended at time ts
store_snapshot(shape, i, ts) ==
    LET created == (i :> new_snapshot(Root))
        batch == store_batch(shape)
    IN  CASE shape.status = "completed" ->
                complete_snapshot(created, i, size_of(shape.a) + size_of(shape.b),
                                  batch[Len(batch)].file_count, Len(batch), ts)[i]
          [] shape.status = "failed" -> fail_snapshot(created, i, ts)[i]
          [] OTHER -> created[i]

RECURSIVE store_entries(_, _)
store_entries(h, n) ==
    IF n = 0 THEN <<>>
    ELSE insert_entries_batch(store_entries(h, n - 1), n, store_batch(h[n]))

RECURSIVE store_errors(_, _)
store_errors(h, n) ==
    IF n = 0 THEN <<>>
    ELSE store_errors(h, n - 1)
         \o (IF h[n].status = "failed" THEN <<fatal_error(n, CancelledByUser)>> ELSE <<>>)

InitStore ==
    /\ config = Config(<<Root>>, {}, 0)
    /\ fs = Fs0
    /\ \E h \in Histories, backwards \in BOOLEAN :
         LET n == Len(h)
         IN  /\ snapshots = [i \in 1..n |->
                               store_snapshot(h[i], i, IF backwards THEN n + 1 - i ELSE i)]
             /\ entries = store_entries(h, n)
             /\ scan_errors = store_errors(h, n)
             /\ next_id = n + 1
             /\ now = n + 1
    /\ scan_task = NoneTask
    /\ scanner = <<>>
    /\ InitTasks
    /\ env = Env(0, {}, 0, {})
    /\ reply = NoReply

NextStore == GetTopGrowth \/ Cleanup

SpecStore == InitStore /\ [][NextStore]_vars

----------------------------------------------------------------------------
(* The growth query *)

Answered == reply.op = "get_top_growth"

\* the completed snapshot that completed last, and the one that completed just
\* before it (stated only of a store with two completed snapshots)
LatestCompleted ==
    CHOOSE l \in Completed :
        \A i \in Completed : snapshots[i].completed_at <= snapshots[l].completed_at

PrecedingCompleted ==
    CHOOSE q \in Completed \ {LatestCompleted} :
        \A i \in Completed \ {LatestCompleted} :
            snapshots[i].completed_at <= snapshots[q].completed_at

\* the size a path had in a snapshot, 0 when the snapshot has no row for it
SizeIn(id, path) ==
    LET at == {k \in EntriesOf(id) : entries[k].path = path}
    IN  IF at = {} THEN 0 ELSE entries[CHOOSE k \in at : TRUE].size

GrowthOf(k) == entries[k].size - SizeIn(PrecedingCompleted, entries[k].path)

\* the directory rows of the latest snapshot that grew
Grown == {k \in EntriesOf(LatestCompleted) : entries[k].is_dir = 1 /\ GrowthOf(k) > 0}

\* row r of the answer reports the growth of the entry k
Reports(r, k) ==
    /\ r.path = entries[k].path
    /\ r.current_size = entries[k].size
    /\ r.growth = GrowthOf(k)

\* the answer lists min(N, number of grown directories) distinct grown
\* directories, largest growth first, and none that was left out grew more
TopGrown ==
    /\ Len(reply.rows) = Min(reply.limit, Cardinality(Grown))
    /\ \A n \in DOMAIN reply.rows : \E k \in Grown : Reports(reply.rows[n], k)
    /\ \A n, m \in DOMAIN reply.rows :
         n < m => /\ reply.rows[n].path # reply.rows[m].path
                  /\ reply.rows[n].growth >= reply.rows[m].growth
    /\ \A k \in Grown :
         (\A n \in DOMAIN reply.rows : reply.rows[n].path # entries[k].path)
            => \A n \in DOMAIN reply.rows : reply.rows[n].growth >= GrowthOf(k)

\* growth_percent is in hundredths of a percent: 100.00 when the path had no
\* size before, else growth * 100 / previous to the nearest hundredth
PercentRounded(r) ==
    LET previous_size == r.current_size - r.growth
    IN  IF previous_size > 0
        THEN LET off == 2 * (r.growth_percent * previous_size - r.growth * 10000)
             IN  -previous_size < off /\ off <= previous_size
        ELSE r.growth_percent = 10000

\* growth_percent is exactly growth * 100 / previous
PercentExact(r) ==
    LET previous_size == r.current_size - r.growth
    IN  IF previous_size > 0
        THEN r.growth_percent * previous_size = r.growth * 10000
        ELSE r.growth_percent = 10000

\* C16, as amended: with two completed snapshots in the store, get_top_growth(N)
\* returns exactly the directory entries of the snapshot that completed last
\* whose size grew against the snapshot that completed just before it (an
\* absent path counting as 0), ordered by growth descending and truncated to N,
\* with growth percent = growth * 100 / previous rounded to two decimals when
\* previous > 0 and 100 otherwise.
C16_TopGrowthOfLastTwoCompleted ==
    (Answered /\ Cardinality(Completed) >= 2)
        => /\ reply.latest = LatestCompleted
           /\ reply.previous = PrecedingCompleted
           /\ TopGrown
           /\ \A n \in DOMAIN reply.rows : PercentRounded(reply.rows[n])

\* C16, as stated: the same, with growth percent = growth * 100 / previous,
\* not rounded.
C16_PercentIsExactQuotient ==
    (Answered /\ Cardinality(Completed) >= 2)
        => /\ TopGrown
           /\ \A n \in DOMAIN reply.rows : PercentExact(reply.rows[n])

\* the example: S1 {/a: 100}, S2 {/a: 150, /b: 20} with S2 completed last and a
\* third, older snapshot in the store; /a +50 (50%) is listed before /b +20 (100%)
C16_Witness ==
    /\ Answered /\ Cardinality(Completed) = 3
    /\ snapshots[reply.latest].completed_at > snapshots[reply.previous].completed_at
    /\ reply.latest < reply.previous
    /\ \E n \in DOMAIN reply.rows : n + 1 \in DOMAIN reply.rows
         /\ reply.rows[n].path = Dir_a /\ reply.rows[n].growth = 50
         /\ reply.rows[n].previous_size = <<100>>
         /\ reply.rows[n].growth_percent = 5000
         /\ reply.rows[n + 1].path = Dir_b /\ reply.rows[n + 1].growth = 20
         /\ reply.rows[n + 1].previous_size = NULL
         /\ reply.rows[n + 1].growth_percent = 10000

\* C17: get_top_growth returns an empty list whenever fewer than two completed
\* snapshots exist, whether none or exactly one, whatever running or failed
\* snapshots the store holds.
C17_EmptyBelowTwoCompleted ==
    (Answered /\ Cardinality(Completed) < 2) => reply.rows = <<>>

\* the part of C17 about a store with no completed snapshot
NoneCompletedGivesEmpty ==
    (Answered /\ Completed = {}) => reply.rows = <<>>

----------------------------------------------------------------------------
(* Ownership of entries and scan errors *)

\* C18: every Entry and every ScanError refers to an existing snapshot; after
\* cleanup_old_snapshots deletes a snapshot no row referring to its id remains.
C18_RowsBelongToASnapshot ==
    /\ \A k \in DOMAIN entries : entries[k].snapshot_id \in DOMAIN snapshots
    /\ \A k \in DOMAIN scan_errors : scan_errors[k].snapshot_id \in DOMAIN snapshots

----------------------------------------------------------------------------
(* Cancellation: latency and whole entries *)

\* the scanner of task t has its cancellation flag set
Cancelled(t) == run[t].scanner \in DOMAIN scanner /\ scanner[run[t].scanner].cancelled

\* the entries a scan of the snapshot's mount point computes when nothing
\* interrupts it
Uninterrupted(id) ==
    scan_entries(snapshots[id].mount_point, config.skip_paths, config.max_depth)

\* e is the entry of its path, with all its files and children counted
Whole(id, e) ==
    e.path \in DOMAIN Uninterrupted(id) /\ e = Uninterrupted(id)[e.path]

\* C19: once cancel() was called during a scan, the scan starts on no further
\* directory, so that at most the directory being processed at that moment
\* still gets its Entry, one Entry per directory processed; every Entry
\* computed, batched or persisted is the whole Entry of its directory, as an
\* uninterrupted scan computes it; and when the cancelled scan has ended every
\* computed Entry is persisted, once.
C19_CancelLatencyAndWholeEntries ==
    /\ [][\A t \in Tasks :
            /\ (Cancelled(t) /\ pc'[t] = "files") => pc[t] = "files"
            /\ (InScan(t) /\ scan'[t].dir_sizes # scan[t].dir_sizes /\ pc'[t] # "idle"
                /\ scan'[t].snapshot_id = scan[t].snapshot_id)
               => /\ pc[t] = "files" /\ pc'[t] \in {"walk", "flush"}
                  /\ \E path \in DOMAIN scan'[t].dir_sizes \ DOMAIN scan[t].dir_sizes :
                        /\ DOMAIN scan'[t].dir_sizes = DOMAIN scan[t].dir_sizes \cup {path}
                        /\ path = walk(fs, scan[t].mount_point)[scan[t].pos].root
                  /\ \A path \in DOMAIN scan[t].dir_sizes :
                        scan'[t].dir_sizes[path] = scan[t].dir_sizes[path]
        ]_vars
    /\ [](/\ \A k \in DOMAIN entries : Whole(entries[k].snapshot_id, AsEntry(k))
          /\ \A t \in Tasks :
                scan[t].snapshot_id \in DOMAIN snapshots
                => LET id == scan[t].snapshot_id
                   IN  /\ \A path \in DOMAIN scan[t].dir_sizes :
                              Whole(id, scan[t].dir_sizes[path])
                       /\ \A n \in DOMAIN scan[t].entries_batch :
                              Whole(id, scan[t].entries_batch[n])
                       /\ CancelledReturn(t)
                          => /\ {entries[k].path : k \in EntriesOf(id)}
                                  = DOMAIN scan[t].dir_sizes
                             /\ Cardinality(EntriesOf(id))
                                  = Cardinality(DOMAIN scan[t].dir_sizes))

\* C19 witness: a cancelled scan of / has ended part way through the walk; /a/b
\* is persisted with its file and its child /a/b/c counted, and /a, which the
\* walk had not reached, has no Entry
C19_Witness ==
    \E t \in Tasks :
        /\ CancelledReturn(t)
        /\ scan[t].mount_point = Root
        /\ scan[t].pos < Len(walk(fs, Root))
        /\ \E k \in EntriesOf(scan[t].snapshot_id) :
              /\ entries[k].path = Dir_ab
              /\ entries[k].size = 6 /\ entries[k].file_count = 2 /\ entries[k].dir_count = 1
        /\ \A k \in EntriesOf(scan[t].snapshot_id) : entries[k].path # Dir_a

----------------------------------------------------------------------------
(* The exclusion rule *)

Dir_var_tmp == <<"/", "v", "a", "r", "/", "t", "m", "p">>
Dir_var_tmpX == Dir_var_tmp \o <<"X">>

\* the skip paths a configuration may list
UserSkips == {Root, Dir_ab, Dir_ab_slash, <<"/", "v", "a", "r">>}

\* the paths _should_skip is asked about
AskedPaths ==
    { Root, Dir_a, Dir_ab, Dir_ab \o <<"X">>, Dir_abc, Dir_tmp, Dir_tmpX,
      <<"/", "v", "a", "r">>, <<"/", "v", "a", "r", "X">>, Dir_var_tmp, Dir_var_tmpX,
      Dir_var_tmp \o <<"/", "x">>, <<"/", "p", "r", "o", "c", "/", "1">> }

\* scanner._should_skip(path)
ShouldSkip ==
    /\ \E path \in AskedPaths :
         reply' = [op |-> "_should_skip", path |-> path,
                   result |-> should_skip(scanner[1].skip_paths, path)]
    /\ UNCHANGED <<config, fs, dbVars, scan_task, scanner, taskVars, env>>

\* a scanner constructed from a configuration's skip paths
InitSkip ==
    /\ \E skip_paths \in SUBSET UserSkips : config = Config(<<Root>>, skip_paths, 0)
    /\ fs = Fs0
    /\ InitDb
    /\ InitTasks
    /\ scan_task = NoneTask
    /\ scanner = (1 :> DiskScanner(config.skip_paths, config.max_depth))
    /\ env = Env(0, {}, 0, {})
    /\ reply = NoReply

NextSkip == ShouldSkip

SpecSkip == InitSkip /\ [][NextSkip]_vars

\* path is skip followed by the separator and more
DelimitedBy(path, skip) ==
    /\ Len(path) > Len(skip)
    /\ \A i \in 1..Len(skip) : path[i] = skip[i]
    /\ path[Len(skip) + 1] = "/"

\* C20: _should_skip(p) is true exactly when p equals a path of the skip set or
\* starts with one followed by '/', the skip set being the configured skip
\* paths united with the built-in roots under every configuration; a path that
\* only shares a string prefix with a skip path, such as /var/tmpX with
\* /var/tmp, is not excluded.
C20_SkipExactOrDelimited ==
    reply.op = "_should_skip"
    => /\ reply.result
            <=> \E skip \in config.skip_paths \cup default_skip :
                    reply.path = skip \/ DelimitedBy(reply.path, skip)
       /\ (reply.path = Dir_var_tmpX /\ config.skip_paths \subseteq {Dir_ab, Dir_ab_slash})
            => ~reply.result

\* C20 witness: with only /a/b configured, /var/tmpX was asked about and is not
\* excluded although the built-in /var/tmp is a string prefix of it
C20_Witness ==
    /\ reply.op = "_should_skip"
    /\ config.skip_paths = {Dir_ab}
    /\ reply.path = Dir_var_tmpX
    /\ ~reply.result
    /\ should_skip(scanner[1].skip_paths, Dir_var_tmp \o <<"/", "x">>)
    /\ should_skip(scanner[1].skip_paths, Dir_abc)

----------------------------------------------------------------------------
(* The depth limit *)

\* the number of levels a directory lies below the scan root
Level(path, mount_point) == Components(path) - Components(mount_point)

\* the directories the walk of a mount point lists that are not skipped and lie
\* within d levels of the scan root (any number of levels when d = 0)
Within(mount_point, d) ==
    LET items == walk(fs, mount_point)
    IN  {p \in {items[i].root : i \in DOMAIN items} :
            /\ ~should_skip(config.skip_paths \cup default_skip, p)
            /\ d > 0 => Level(p, mount_point) <= d}

\* those of a set of directories that are path or lie beneath it
Under(P, path) ==
    {p \in P : p = path
               \/ startswith(p, IF endswith(path, <<"/">>) THEN path ELSE path \o <<"/">>)}

RECURSIVE BytesIn(_)
\* the bytes of the measured files directly inside the directories of a set
BytesIn(P) ==
    IF P = {} THEN 0
    ELSE LET p == CHOOSE x \in P : TRUE
         IN  sum_sizes(measured(fs[p].files)) + BytesIn(P \ {p})

\* C21: with a positive max_depth d no Entry lies more than d levels below the
\* scan root or has a depth greater than d, and an Entry at depth d holds its
\* own direct files only; in a completed snapshot the Entries are those of the
\* directories within the limit (of every listed directory not skipped when
\* max_depth = 0), and each Entry's size and file count are the sums over the
\* part of its subtree within the limit, its directory count the number of
\* Entries beneath it.
C21_DepthLimitCutsCleanly ==
    \A id \in DOMAIN snapshots :
        LET mount_point == snapshots[id].mount_point
            d == config.max_depth
            kept == Within(mount_point, d)
        IN  /\ \A k \in EntriesOf(id) :
                  /\ d > 0 => /\ entries[k].depth <= d
                              /\ Level(entries[k].path, mount_point) <= d
                  /\ (d > 0 /\ entries[k].depth = d)
                     => LET files == measured(fs[entries[k].path].files)
                        IN  /\ entries[k].size = sum_sizes(files)
                            /\ entries[k].file_count = Len(files)
                            /\ entries[k].dir_count = 0
            /\ snapshots[id].status = "completed"
               => /\ {entries[k].path : k \in EntriesOf(id)} = kept
                  /\ \A k \in EntriesOf(id) :
                        LET part == Under(kept, entries[k].path)
                        IN  /\ entries[k].size = BytesIn(part)
                            /\ entries[k].file_count = FilesIn(part)
                            /\ entries[k].dir_count = Cardinality(part) - 1

\* C21 witness: a completed snapshot of /a with max_depth = 1: /a/b, at depth 1,
\* holds its own 2 bytes and not the 4 bytes of /a/b/c, which has no Entry, and
\* /a holds 1 + 2 bytes
C21_Witness ==
    /\ config.max_depth = 1
    /\ \E id \in DOMAIN snapshots :
          /\ snapshots[id].status = "completed"
          /\ \E j, k \in EntriesOf(id) :
                /\ entries[j].path = Dir_a /\ entries[j].size = 3 /\ entries[j].dir_count = 1
                /\ entries[k].path = Dir_ab /\ entries[k].depth = 1 /\ entries[k].size = 2
          /\ \A k \in EntriesOf(id) : entries[k].path # Dir_abc

----------------------------------------------------------------------------
(* The order of persistence *)

\* the place of a directory in the bottom-up walk of a mount point
WalkIndex(mount_point, path) ==
    LET items == walk(fs, mount_point)
    IN  CHOOSE i \in DOMAIN items : items[i].root = path

\* C22: within one scan the rows of the table entries, in the order in which
\* they reached the store, follow the bottom-up walk: when a directory's row is
\* persisted the rows of all directories beneath it that the scan does not
\* exclude are persisted before it (in the same batch or an earlier one), and
\* rows are stored in the order in which their entries were completed.
C22_PersistedInPostOrder ==
    \A id \in DOMAIN snapshots :
        LET mount_point == snapshots[id].mount_point
            kept == Within(mount_point, config.max_depth)
        IN  /\ \A k \in EntriesOf(id) :
                  \A p \in Under(kept, entries[k].path) \ {entries[k].path} :
                      \E j \in EntriesOf(id) : j < k /\ entries[j].path = p
            /\ \A j, k \in EntriesOf(id) :
                  j < k => WalkIndex(mount_point, entries[j].path)
                             < WalkIndex(mount_point, entries[k].path)

\* C22 witness: a snapshot of / whose rows arrived in three batches: /a/b/c and
\* /a/b, then /a and /tmpX, then /
C22_Witness ==
    \E id \in DOMAIN snapshots : \E i, j, k, l, m \in EntriesOf(id) :
        /\ i < j /\ j < k /\ k < l /\ l < m
        /\ entries[i].path = Dir_abc /\ entries[j].path = Dir_ab
        /\ entries[k].path = Dir_a /\ entries[l].path = Dir_tmpX
        /\ entries[m].path = Root

----------------------------------------------------------------------------
(* Batching *)

\* the step stores the pending batch of task t, whole and in order, behind the
\* rows already stored
StoresBatch(t) ==
    LET batch == scan[t].entries_batch
        n == Len(entries)
    IN  /\ Len(entries') = n + Len(batch)
        /\ \A i \in 1..n : entries'[i] = entries[i]
        /\ \A i \in 1..Len(batch) :
              /\ entries'[n + i].snapshot_id = scan[t].snapshot_id
              /\ entries'[n + i].path = batch[i].path
              /\ entries'[n + i].size = batch[i].size
              /\ entries'[n + i].file_count = batch[i].file_count
              /\ entries'[n + i].dir_count = batch[i].dir_count

\* the scan() call of task t has returned without raising
ScanReturned(t) == pc[t] = "scan_returned" /\ scan[t].snapshot_id \in DOMAIN snapshots

\* C23: the pending batch never exceeds BATCH_SIZE and is flushed as soon as it
\* holds BATCH_SIZE entries; rows reach the table only as a whole pending
\* batch, of exactly BATCH_SIZE entries during the walk (and is then cleared)
\* or of a non-empty remainder at its end; and when a scan has returned, its
\* snapshot completed or failed as cancelled, every Entry it computed has
\* exactly one row.
C23_BatchesAreWholeAndOnce ==
    /\ [][entries' # entries
            => \E t \in Tasks :
                  /\ pc[t] \in {"flush", "flush_final"}
                  /\ StoresBatch(t)
                  /\ scan[t].entries_batch # <<>>
                  /\ pc[t] = "flush" => /\ Len(scan[t].entries_batch) = BATCH_SIZE
                                        /\ scan'[t].entries_batch = <<>>
                  /\ pc[t] = "flush_final" => Len(scan[t].entries_batch) < BATCH_SIZE
        ]_vars
    /\ [](\A t \in Tasks :
            /\ Len(scan[t].entries_batch) <= BATCH_SIZE
            /\ pc[t] \in {"walk", "files", "flush_final"}
               => Len(scan[t].entries_batch) < BATCH_SIZE
            /\ pc[t] = "flush" => Len(scan[t].entries_batch) = BATCH_SIZE
            /\ ScanReturned(t)
               => LET id == scan[t].snapshot_id
                  IN  /\ snapshots[id].status \in {"completed", "failed"}
                      /\ {entries[k].path : k \in EntriesOf(id)} = DOMAIN scan[t].dir_sizes
                      /\ \A j, k \in EntriesOf(id) :
                            entries[j].path = entries[k].path => j = k
                      /\ Cardinality(EntriesOf(id)) = scan[t].stats.total_dirs)

\* C23 witness: a completed scan of /a has returned: three entries, stored as
\* one full batch and a remainder of one
C23_Witness ==
    \E t \in Tasks :
        /\ ScanReturned(t)
        /\ snapshots[scan[t].snapshot_id].status = "completed"
        /\ scan[t].mount_point = Dir_a
        /\ Cardinality(EntriesOf(scan[t].snapshot_id)) = 3
        /\ Len(scan[t].entries_batch) = 1

----------------------------------------------------------------------------
(* Progress notifications *)

\* C24: a progress notification that fails (the callback raises) does not
\* affect the scan: no scan() call ends with the callback's exception, and no
\* snapshot is failed with it as its fatal error.
C24_ProgressNeverFailsScan ==
    /\ \A t \in Tasks : exc[t] # CallbackError
    /\ \A id \in DOMAIN snapshots : \A k \in FatalRows(id) :
          scan_errors[k].error_message # CallbackError

----------------------------------------------------------------------------
(* The growth query beside a running scan *)

\* the server with earlier scans of / in its store: none, S1 {/a: 100}, or S1
\* and S2 {/a: 150, /b: 20}; one scan is triggered and /api/growth is asked at
\* any moment
InitQuery ==
    /\ \E mount_point \in {Root, Dir_a} : config = Config(<<mount_point>>, {}, 0)
    /\ env = Env(1, {<<>>}, 0, {})
    /\ fs = Fs0
    /\ \E h \in {<<>>, <<[status |-> "completed", a |-> <<100>>, b |-> NULL]>>,
                 <<[status |-> "completed", a |-> <<100>>, b |-> NULL],
                   [status |-> "completed", a |-> <<150>>, b |-> <<20>>]>>} :
          /\ snapshots = [i \in 1..Len(h) |-> store_snapshot(h[i], i, i)]
          /\ entries = store_entries(h, Len(h))
          /\ scan_errors = <<>>
          /\ next_id = Len(h) + 1
          /\ now = Len(h) + 1
    /\ InitTasks
    /\ scan_task = NoneTask
    /\ scanner = <<>>
    /\ reply = NoReply

NextQuery == Next \/ GetTopGrowth

SpecQuery == InitQuery /\ [][NextQuery]_vars

\* the snapshots with status 'completed', as rows
CompletedRows == {<<i, snapshots[i]>> : i \in {j \in DOMAIN snapshots :
                                                  snapshots[j].status = "completed"}}

\* C25: the lists get_top_growth may return are the same before and after
\* every step that neither completes nor deletes a snapshot: the creation of a
\* snapshot, the insertion of a batch or of an error row, the failing of a
\* snapshot; so at every point of a running scan the result is the one
\* computed just before the scan started. Every answer compares completed
\* snapshots only.
C25_QueryUnaffectedByRunningScan ==
    /\ [][CompletedRows' = CompletedRows
            => \A limit \in 1..MaxLimit : get_top_growth(limit)' = get_top_growth(limit)
        ]_vars
    /\ [](Answered => \A id \in {reply.latest, reply.previous} \ {NoneId} :
                         id \in DOMAIN snapshots /\ snapshots[id].status = "completed")

\* C25 witness: the query was answered while a scan of / was running and had
\* stored rows for /a; the answer is the one of S1 and S2, /a +50 first or
\* second
C25_Witness ==
    /\ Answered
    /\ reply.stored > 5
    /\ reply.latest = 2 /\ reply.previous = 1
    /\ \E n \in DOMAIN reply.rows : reply.rows[n].path = Dir_a /\ reply.rows[n].growth = 50
    /\ \E id \in RunningSnapshots : \E k \in EntriesOf(id) :
          k <= reply.stored /\ entries[k].path = Dir_a

----------------------------------------------------------------------------
(* Failed snapshots *)

\* C26: in every state a snapshot has exactly one ScanError classified FATAL
\* when its status is 'failed' and none otherwise, so the status and the error
\* are written together; a failed snapshot has a completion timestamp and its
\* totals at 0, and its FATAL error is at path "/" and carries the reason: the
\* message of the exception scan() raised, or 'Cancelled by user' when scan()
\* returned.
C26_FailedHasOneFatalError ==
    \A id \in DOMAIN snapshots :
        IF snapshots[id].status = "failed"
        THEN /\ snapshots[id].completed_at # 0
             /\ snapshots[id].total_size = 0
             /\ snapshots[id].total_files = 0
             /\ snapshots[id].total_dirs = 0
             /\ Cardinality(FatalRows(id)) = 1
             /\ \A k \in FatalRows(id) :
                   /\ scan_errors[k].path = Root
                   /\ scan_errors[k].error_message # NoneMsg
                   /\ \A t \in Tasks :
                         scan[t].snapshot_id = id
                         => /\ pc[t] = "scan_raised" => scan_errors[k].error_message = exc[t]
                            /\ pc[t] = "scan_returned"
                               => scan_errors[k].error_message = CancelledByUser
        ELSE FatalRows(id) = {}

\* C26 witness: a scan of /a (not the path "/") failed on a storage error after
\* it had stored entries
C26_Witness ==
    \E id \in DOMAIN snapshots :
        /\ snapshots[id].status = "failed"
        /\ snapshots[id].mount_point = Dir_a
        /\ EntriesOf(id) # {}
        /\ \E k \in FatalRows(id) :
              scan_errors[k].path = Root /\ scan_errors[k].error_message = StorageError

----------------------------------------------------------------------------
(* Snapshot totals *)

\* the rows of a snapshot for its own mount point
RootRows(id) == {k \in EntriesOf(id) : entries[k].path = snapshots[id].mount_point}

\* C27: for every completed snapshot total_dirs is the number of its rows in
\* the table entries; a snapshot that has rows has a row for its mount point,
\* and that row's size and file_count are total_size and total_files, and its
\* dir_count + 1 is total_dirs.
C27_TotalsAgreeWithEntries ==
    \A id \in DOMAIN snapshots :
        snapshots[id].status = "completed"
        => /\ snapshots[id].total_dirs = Cardinality(EntriesOf(id))
           /\ EntriesOf(id) # {} => RootRows(id) # {}
           /\ \A k \in RootRows(id) :
                 /\ snapshots[id].total_size = entries[k].size
                 /\ snapshots[id].total_files = entries[k].file_count
                 /\ snapshots[id].total_dirs = entries[k].dir_count + 1

\* C27 witness: a completed snapshot of /a, where one file cannot be read and
\* one directory cannot be listed: 7 bytes in 3 files and 3 directories
C27_Witness ==
    \E id \in DOMAIN snapshots :
        /\ snapshots[id].status = "completed"
        /\ snapshots[id].mount_point = Dir_a
        /\ snapshots[id].total_size = 7
        /\ snapshots[id].total_files = 3
        /\ snapshots[id].total_dirs = 3
        /\ \E k \in RootRows(id) : entries[k].size = 7 /\ entries[k].dir_count = 2

----------------------------------------------------------------------------
(* Mount points at or beneath a skip path *)

\* one triggered run over a mount point that is a built-in skip path (/tmp),
\* that lies beneath a configured one (/a/b/c under /a/b), or that is neither,
\* or over two mount points (/tmpX and /a/b/c)
InitMounts ==
    /\ \E r \in {<<<<Dir_tmp>>, {}>>, <<<<Dir_abc>>, {Dir_ab}>>, <<<<Dir_a>>, {}>>,
                 <<<<Dir_a>>, {Dir_ab}>>, <<<<Dir_tmpX, Dir_abc>>, {}>>} :
          config = Config(r[1], r[2], 0)
    /\ env = Env(1, {<<>>}, 0, {})
    /\ fs = Fs0
    /\ InitDb
    /\ InitTasks
    /\ scan_task = NoneTask
    /\ scanner = <<>>
    /\ reply = NoReply

SpecMounts == InitMounts /\ [][Next]_vars

\* C28: every completed snapshot contains exactly one Entry of depth 0, whose
\* path is the snapshot's mount point, and at most one Entry per path, also
\* when the mount point is a skip path or lies beneath one.
C28_OneRootEntry ==
    \A id \in DOMAIN snapshots :
        snapshots[id].status = "completed"
        => /\ Cardinality({k \in EntriesOf(id) : entries[k].depth = 0}) = 1
           /\ \A k \in EntriesOf(id) :
                 entries[k].depth = 0 => entries[k].path = snapshots[id].mount_point
           /\ \A j, k \in EntriesOf(id) : entries[j].path = entries[k].path => j = k

\* the part of C28 that does not depend on the skip paths: no snapshot has two
\* entries of depth 0 or two of one path, and an Entry of depth 0 is the one of
\* the mount point
AtMostOneRootEntry ==
    \A id \in DOMAIN snapshots :
        /\ Cardinality({k \in EntriesOf(id) : entries[k].depth = 0}) <= 1
        /\ \A k \in EntriesOf(id) :
              entries[k].depth = 0 => entries[k].path = snapshots[id].mount_point
        /\ \A j, k \in EntriesOf(id) : entries[j].path = entries[k].path => j = k

----------------------------------------------------------------------------
(* Cancellation across the mount points of one invocation *)

\* the snapshot was failed as cancelled
CancelledSnapshot(id) ==
    \E k \in FatalRows(id) : scan_errors[k].error_message = CancelledByUser

\* C29: a cancel() that stopped the scan of one mount point stops the whole
\* run_scan invocation: no mount point scanned after it ends with a
\* 'completed' snapshot.
C29_CancelStopsInvocation ==
    \A t \in Tasks : \A i, j \in DOMAIN run[t].snapshot_ids :
        (i < j /\ CancelledSnapshot(run[t].snapshot_ids[i]))
        => snapshots[run[t].snapshot_ids[j]].status # "completed"

\* the part of C29 about a cancel() issued while no scan is running: a scanner
\* that is not inside a scan() call and has its flag set starts its next scan
\* with the flag cleared, so the request does not reach a later scan
StaleCancelIsDropped ==
    [][\A t \in Tasks :
          (pc[t] = "call_scan" /\ pc'[t] \in {"create_snapshot", "except"})
          => ~scanner'[run[t].scanner].cancelled
      ]_vars

----------------------------------------------------------------------------
(* Growth after runs over several mount points *)

\* the DirEntry a completed scan of the mount point, a directory of Fs0 with
\* no subdirectory, flushed
prior_entry(mount_point) ==
    add_files(new_dir_entry(mount_point, 0, mount_point), Fs0[mount_point].files)

\* one triggered run over the mount points /tmpX and /a/b/c, or over /a, and
\* the growth query; the store is empty, or (for /tmpX and /a/b/c) holds what
\* an earlier run over the same mount points of the same file system left
\* behind
InitRuns ==
    /\ \E mount_points \in {<<Dir_tmpX, Dir_abc>>, <<Dir_a>>} :
          config = Config(mount_points, {}, 0)
    /\ env = Env(1, {<<>>}, 0, {})
    /\ fs = Fs0
    /\ \E n \in {0} \cup {Len(config.mount_points) :
                            x \in {m \in {config.mount_points} :
                                      \A i \in DOMAIN m : Fs0[m[i]].dirs = <<>>}} :
          LET mount_point(i) == config.mount_points[i]
              scanned(i) == prior_entry(mount_point(i))
          IN  /\ snapshots =
                    [i \in 1..n |->
                        complete_snapshot((i :> new_snapshot(mount_point(i))), i,
                                          scanned(i).size, scanned(i).file_count, 1, i)[i]]
              /\ entries =
                    [i \in 1..n |-> insert_entries_batch(<<>>, i, <<scanned(i)>>)[1]]
              /\ scan_errors = <<>>
              /\ next_id = n + 1
              /\ now = n + 1
    /\ InitTasks
    /\ scan_task = NoneTask
    /\ scanner = <<>>
    /\ reply = NoReply

SpecRuns == InitRuns /\ [][NextQuery]_vars

\* the other completed snapshot of the mount point of snapshot id that
\* completed last
OwnPrevious(id) ==
    LET own == {i \in Completed \ {id} :
                    snapshots[i].mount_point = snapshots[id].mount_point}
    IN  {i \in own : \A j \in own : snapshots[j].completed_at <= snapshots[i].completed_at}

\* C30: get_top_growth never reports as growth a directory that has the same
\* size in the previous completed snapshot of its own mount point (the two
\* snapshots it compares belong to the same mount point).
C30_UnchangedIsNeverGrowth ==
    [][(reply' # reply /\ Answered') =>
          \A n \in DOMAIN reply'.rows : \A i \in OwnPrevious(reply'.latest) :
              SizeIn(i, reply'.rows[n].path) # reply'.rows[n].current_size
      ]_vars

----------------------------------------------------------------------------
(* The scheduler's jobs *)

Digits == <<"0", "1", "2", "3", "4", "5", "6", "7", "8", "9">>

\* the string HH:MM, each field a two-digit decimal numeral
HHMM(hour, minute) ==
    LET two_digits(n) == <<Digits[(n \div 10) + 1], Digits[(n % 10) + 1]>>
    IN  two_digits(hour) \o <<":">> \o two_digits(minute)

RECURSIVE split_colon_acc(_, _, _)
split_colon_acc(s, cur, acc) ==
    IF s = <<>> THEN Append(acc, cur)
    ELSE IF Head(s) = ":" THEN split_colon_acc(Tail(s), <<>>, Append(acc, cur))
    ELSE split_colon_acc(Tail(s), Append(cur, Head(s)), acc)

\* scan_time.split(':')
split_colon(s) == split_colon_acc(s, <<>>, <<>>)

\* int(s) of a string of decimal digits; ValueError (here -1) of the empty
\* string and of a string with another character
RECURSIVE int_acc(_, _)
int_acc(s, n) ==
    IF s = <<>> THEN n
    ELSE LET d == {i \in DOMAIN Digits : Digits[i] = Head(s)}
         IN  IF d = {} THEN -1 ELSE int_acc(Tail(s), 10 * n + (CHOOSE i \in d : TRUE) - 1)

int(s) == IF s = <<>> THEN -1 ELSE int_acc(s, 0)

\* hour, minute = map(int, scan_time.split(':')), and 3, 0 on ValueError (a
\* field that is no number, or not exactly two fields)
parse_scan_time(scan_time) ==
    LET fields == split_colon(scan_time)
    IN  IF Len(fields) = 2 /\ int(fields[1]) >= 0 /\ int(fields[2]) >= 0
        THEN [hour |-> int(fields[1]), minute |-> int(fields[2])]
        ELSE [hour |-> 3, minute |-> 0]

\* CronTrigger(hour=, minute=): APScheduler accepts an hour in 0..23 and a
\* minute in 0..59 and raises ValueError for a value above the field's maximum
CronTrigger(hour, minute) ==
    IF hour \in 0..23 /\ minute \in 0..59
    THEN [hour |-> hour, minute |-> minute]
    ELSE NULL

\* ScanScheduler.start(): what the call leaves behind (the jobs of the
\* scheduler by id, whether the scheduler was started, the exception raised)
start(cfg) ==
    LET at == parse_scan_time(cfg.scheduler.scan_time)
        daily_scan == CronTrigger(at.hour, at.minute)
        cleanup == CronTrigger(at.hour, at.minute + 30)
        NoJobs == [id \in {} |-> NULL]
        outcome(jobs, running, raised) ==
            [op |-> "start", jobs |-> jobs, running |-> running, raised |-> raised]
    IN  IF ~cfg.scheduler.enabled THEN outcome(NoJobs, FALSE, "")
        ELSE IF daily_scan = NULL THEN outcome(NoJobs, FALSE, "ValueError")
        ELSE IF cfg.retention.days > 0
        THEN IF cleanup = NULL
             THEN outcome(("daily_scan" :> daily_scan), FALSE, "ValueError")
             ELSE outcome(("daily_scan" :> daily_scan) @@ ("cleanup" :> cleanup), TRUE, "")
        ELSE outcome(("daily_scan" :> daily_scan), TRUE, "")

\* lifespan, startup: scheduler.start()
Start ==
    /\ reply = NoReply
    /\ reply' = start(config)
    /\ UNCHANGED <<config, fs, dbVars, scan_task, scanner, taskVars, env>>

\* lifespan, shutdown (reached only when the startup did not raise):
\* scheduler.stop() shuts the scheduler down if it is running
Stop ==
    /\ reply.op = "start"
    /\ reply.raised = ""
    /\ reply' = [reply EXCEPT !.op = "stop", !.running = FALSE]
    /\ UNCHANGED <<config, fs, dbVars, scan_task, scanner, taskVars, env>>

\* the configured scan times: every HH:MM of the day, and strings that are
\* no time of day
ScanTimes ==
    {HHMM(hour, minute) : hour \in 0..23, minute \in 0..59}
    \cup {<<"0", "3", "0", "0">>, <<"3", ":", "x">>, <<"1", ":", "2", ":", "3">>,
          <<"2", "5", ":", "0", "0">>, <<"7", ":", "5">>}

InitStart ==
    /\ \E enabled \in BOOLEAN, scan_time \in ScanTimes, days \in 0..MaxRetention :
         config = Config(<<Root>>, {}, 0)
                  @@ [scheduler |-> [enabled |-> enabled, scan_time |-> scan_time],
                      retention |-> [days |-> days]]
    /\ fs = Fs0
    /\ InitDb
    /\ InitTasks
    /\ scan_task = NoneTask
    /\ scanner = <<>>
    /\ env = Env(0, {}, 0, {})
    /\ reply = NoReply

NextStart == Start \/ Stop

SpecStart == InitStart /\ [][NextStart]_vars

\* start() registered the job id at hour:minute
Registered(id, hour, minute) ==
    /\ id \in DOMAIN reply.jobs
    /\ reply.jobs[id] = [hour |-> hour, minute |-> minute]

\* C31: for every configured scan_time HH:MM with 0 <= HH <= 23 and
\* 0 <= MM <= 59, start() (of an enabled scheduler) registers the daily scan at
\* HH:MM and, when retention days > 0, the cleanup job at the time of day 30
\* minutes after the scan, its minute in 0..59, and starts the scheduler.
C31_StartSchedulesScanAndCleanup ==
    \A hour \in 0..23, minute \in 0..59 :
        (/\ reply.op = "start"
         /\ config.scheduler.enabled
         /\ config.scheduler.scan_time = HHMM(hour, minute))
        => /\ reply.raised = ""
           /\ reply.running
           /\ Registered("daily_scan", hour, minute)
           /\ config.retention.days > 0 =>
                /\ "cleanup" \in DOMAIN reply.jobs
                /\ reply.jobs["cleanup"].minute \in 0..59
                /\ reply.jobs["cleanup"].hour \in 0..23
                /\ reply.jobs["cleanup"].hour * 60 + reply.jobs["cleanup"].minute
                     = (hour * 60 + minute + 30) % (24 * 60)

\* the part of C31 that holds: a scan time in the first half of an hour gets
\* both jobs, the cleanup 30 minutes later in the same hour, and a started
\* scheduler; with retention days <= 0 every scan time gets the daily scan
StartInFirstHalfHour ==
    \A hour \in 0..23, minute \in 0..59 :
        (/\ reply.op = "start"
         /\ config.scheduler.enabled
         /\ config.scheduler.scan_time = HHMM(hour, minute)
         /\ (minute < 30 \/ config.retention.days <= 0))
        => /\ reply.raised = ""
           /\ reply.running
           /\ Registered("daily_scan", hour, minute)
           /\ config.retention.days > 0 => Registered("cleanup", hour, minute + 30)
           /\ config.retention.days <= 0 => "cleanup" \notin DOMAIN reply.jobs

====
